---- MODULE Spec2Model ----
(***************************************************************************)
(* A model of the fragrantica-scraper crawl core: URL normalisation        *)
(* (network.py), proxy selection, the frontier crawl loop and the brand    *)
(* work-list loop (crawler.py), and the CSV-backed known-URL set           *)
(* (storage.py).                                                           *)
(*                                                                         *)
(* A URL is a record [scheme, host, path, frag]: host is the sequence of   *)
(* its dot-separated labels, path the sequence of its slash-separated      *)
(* segments, frag the fragment ("" when there is none).  A relative href   *)
(* has scheme "" and host << >>.                                           *)
(***************************************************************************)
EXTENDS Integers, Sequences, FiniteSets, TLC

VARIABLES
    \* ---- normalize_url applied to a pair of inputs (SpecNorm)
    nu_in,              \* the two raw URLs
    nu_out,             \* the two results, or << >>
    \* ---- proxy pool (shared by the crawl loops and SpecProxy)
    proxies,            \* the configured proxy list (a sequence, repeats allowed)
    proxy_index,        \* round-robin index, -1 before the first selection
    proxy_failures,     \* failure count per proxy; 0 stands for "no entry"
    gnp_call,           \* << the last get_next_proxy call >>, or << >>
    \* ---- the environment of one crawl() invocation
    args,               \* the argparse Namespace: brand, start_url, max_pages, ...
    site_disallow,      \* the URLs the site's robots.txt disallows
    \* ---- crawl() / _scrape_brand_simple() state
    pc,                 \* "start", "loop", "fetch", "brand_loop", "brand_fetch",
                        \* "brand_retry", "done", "exit"
    rp_parsed,          \* robots.txt was fetched with status 200 and parsed
    queue,              \* the frontier (collections.deque)
    seen,               \* URLs ever queued
    existing_urls,      \* the known-URL set
    csv_rows,           \* the rows of the output CSV, in file order
    url,                \* the URL being fetched
    attempt,            \* 1-based attempt number of the retry loop
    current_proxy,      \* proxy of the active identity, or "None"
    pages_processed,
    requests_since_rotate,
    saved_since_break,
    perfume_urls,       \* brand mode: the work list
    idx,                \* brand mode: position in the work list (enumerate from 1)
    failed_urls,        \* brand mode: URLs whose retry loop failed
    retry_idx,          \* brand mode: position in failed_urls
    \* ---- history
    watch,              \* the URL whose GET requests are counted
    csv_start,          \* the number of rows the CSV held at startup
    gets,               \* number of session.get calls made so far for the URL watch
    enq,                \* number of times a URL was appended to the queue
    ev,                 \* << what the last step did >>, or << >>
    \* ---- main(): multi-brand mode (SpecMain)
    main_pc,            \* "parse", "multi", "single", "done"
    brands_arg,         \* args.brands: the --brands values, as typed
    brands_file,        \* the lines of the --brands-file
    brands,             \* the brand list main() iterates over
    brand_i,            \* number of brands handled so far
    main_saved,         \* main()'s local saved_since_break
    calls,              \* the crawl() invocations so far, in order
    main_args,          \* the argparse namespace of main()
    \* ---- the sleeps of one retry sequence (SpecBackoff)
    bo_class,           \* failure class of the sequence
    bo_base,            \* args.delay_seconds, in half seconds
    bo_sleeps,          \* the sleeps taken after the failed attempts, in half seconds
    \* ---- a bulk rewrite of a store file (SpecRewrite)
    rw,                 \* the tool, its position, the file, the temp file, the rows
    \* ---- parse_category_and_sex (SpecParse)
    cs_call,            \* the document and << the result >>, or << >>
    \* ---- the identities of a run (SpecIdentity)
    idn,                \* the user-agent asked for, the one in use and the last session's
    \* ---- parse_rating_votes_from_text (SpecRating)
    rv_call,            \* the page text and << the result >>, or << >>
    \* ---- extract_links and the limit crawl() gives it (SpecLinks)
    el_call,            \* the page, its anchors, the limit and << the links returned >>
    \* ---- the proxy each request goes through (SpecProxyUse)
    pu,                 \* the loop, the attempt and the proxy of the next GET
    \* ---- one enrich() invocation
    en                  \* << the state of one enrich() run >>, or << >>

normVars  == << nu_in, nu_out >>
proxyVars == << proxies, proxy_index, proxy_failures, gnp_call >>
crawlVars == << args, site_disallow, pc, rp_parsed, queue, seen, existing_urls,
                csv_rows, url, attempt, current_proxy, pages_processed,
                requests_since_rotate, saved_since_break, perfume_urls, idx,
                failed_urls, retry_idx, watch, csv_start, gets, enq, ev >>
mainVars  == << main_pc, brands_arg, brands_file, brands, brand_i, main_saved, calls,
                main_args >>
backoffVars == << bo_class, bo_base, bo_sleeps >>
toolVars  == << rw, cs_call, idn, rv_call, el_call, pu, en >>
pureVars  == << nu_in, nu_out, main_pc, brands_arg, brands_file, brands, brand_i,
                main_saved, calls, main_args, bo_class, bo_base, bo_sleeps, rw,
                cs_call,
                idn,
                rv_call,
                el_call,
                pu,
                en >>
vars      == << nu_in, nu_out, proxies, proxy_index, proxy_failures, gnp_call,
                args, site_disallow, pc, rp_parsed, queue, seen, existing_urls,
                csv_rows, url, attempt, current_proxy, pages_processed,
                requests_since_rotate, saved_since_break, perfume_urls, idx,
                failed_urls, retry_idx, watch, csv_start, gets, enq, ev,
                main_pc, brands_arg, brands_file, brands, brand_i, main_saved, calls,
                main_args, bo_class, bo_base, bo_sleeps, rw, cs_call,
                idn,
                rv_call,
                el_call,
                pu,
                en >>

(***************************************************************************)
(* Strings of the model.                                                   *)
(***************************************************************************)
\* str.lower() / str.casefold() on the host labels and path segments that occur
\* in the model
Lower(l) ==
    CASE l \in {"www", "WWW", "Www"}                         -> "www"
      [] l \in {"fragrantica", "FRAGRANTICA", "Fragrantica"} -> "fragrantica"
      [] l \in {"com", "COM"}                                -> "com"
      [] l \in {"perfume", "Perfume"}                        -> "perfume"
      [] l \in {"chanel", "Chanel", "CHANEL"}                -> "chanel"
      [] l \in {"dior", "Dior"}                              -> "dior"
      [] OTHER                                               -> l

LowerHost(h) == [i \in 1 .. Len(h) |-> Lower(h[i])]

\* config.DOMAIN = "www.fragrantica.com" (DOMAIN is a TLA+ keyword)
Domain == << "www", "fragrantica", "com" >>

\* netloc.lower().startswith("fragrantica.com"), on labels: the first label is
\* "fragrantica" and the second one begins with "com" (of the labels of the
\* model only "com" does)
StartsWithBareDomain(h) ==
    /\ Len(h) >= 2
    /\ Lower(h[1]) = "fragrantica"
    /\ Lower(h[2]) = "com"

\* Python's None where a URL is expected
NoneUrl == [scheme |-> "None", host |-> << >>, path |-> << >>, frag |-> ""]

\* network.normalize_url: None without a scheme; a host that starts with
\* fragrantica.com is replaced by Domain; the fragment is dropped.
normalize_url(u) ==
    IF u.scheme = "" THEN NoneUrl
    ELSE [u EXCEPT !.host = IF StartsWithBareDomain(@) THEN Domain ELSE @,
                   !.frag = ""]

(***************************************************************************)
(* Proxy selection: crawl.get_next_proxy and the identical closure of      *)
(* _scrape_brand_simple.                                                   *)
(***************************************************************************)
ProxyNames == {"pA", "pB"}

\* a proxy is skipped once it has this many failures
FAIL_LIMIT == 3

\* bounds of the inputs SpecProxy enumerates
MaxProxyList == 3
MaxFailCount == 4

NoFailures == [p \in ProxyNames |-> 0]

\* proxy_failures.get(candidate, 0) < 3
ProxyAllowed_le(fails, c) == fails[c] <= FAIL_LIMIT

ProxyAllowed(fails, c) == fails[c] < FAIL_LIMIT

\* max_attempts = len(proxies) * 2
MaxAttempts_triple(ps) == Len(ps) * 3

MaxAttempts(ps) == Len(ps) * 2

\* the while loop of get_next_proxy from the state (pidx, attempts); pidx is the
\* 0-based proxy_index, so the candidate is ps[pidx + 1]
RECURSIVE GnpLoop(_, _, _, _)
GnpLoop(ps, pidx, fails, attempts) ==
    IF attempts < MaxAttempts(ps)
    THEN LET nidx == (pidx + 1) % Len(ps)
             candidate == ps[nidx + 1]
         IN  IF ProxyAllowed(fails, candidate)
             THEN [proxy |-> candidate, index |-> nidx, failures |-> fails,
                   examined |-> attempts + 1, reset |-> FALSE]
             ELSE GnpLoop(ps, nidx, fails, attempts + 1)
    ELSE LET nidx == (pidx + 1) % Len(ps)
         IN  [proxy |-> ps[nidx + 1], index |-> nidx, failures |-> NoFailures,
              examined |-> attempts, reset |-> TRUE]

\* get_next_proxy(): the proxy returned ("None" without a pool), the new
\* proxy_index and proxy_failures, and how many candidates were examined
get_next_proxy(ps, pidx, fails) ==
    IF Len(ps) = 0
    THEN [proxy |-> "None", index |-> pidx, failures |-> fails,
          examined |-> 0, reset |-> FALSE]
    ELSE GnpLoop(ps, pidx, fails, 0)

\* all sequences over S of length 0..n
SeqsUpTo(S, n) == UNION {[(1 .. k) -> S] : k \in (0 .. n)}

\* main() and the retry sleeps are not part of this specification
MainIdle ==
    /\ main_pc = "idle"
    /\ brands_arg = << >>
    /\ brands_file = << >>
    /\ brands = << >>
    /\ brand_i = 0
    /\ main_saved = 0
    /\ calls = << >>
    /\ main_args = << >>

\* no store file is rewritten and no document parsed in this specification
ToolsIdle ==
    /\ rw = << >>
    /\ cs_call = << >>
    /\ idn = << >>
    /\ rv_call = << >>
    /\ el_call = << >>
    /\ pu = << >>
    /\ en = << >>

BackoffIdle ==
    /\ bo_class = "idle"
    /\ bo_base = 0
    /\ bo_sleeps = << >>

\* the crawl is not part of this specification
CrawlIdle ==
    /\ args = << >>
    /\ site_disallow = {}
    /\ pc = "idle"
    /\ rp_parsed = FALSE
    /\ queue = << >>
    /\ seen = {}
    /\ existing_urls = {}
    /\ csv_rows = << >>
    /\ url = NoneUrl
    /\ attempt = 0
    /\ current_proxy = "None"
    /\ pages_processed = 0
    /\ requests_since_rotate = 0
    /\ saved_since_break = 0
    /\ perfume_urls = << >>
    /\ idx = 0
    /\ failed_urls = << >>
    /\ retry_idx = 0
    /\ watch = NoneUrl
    /\ csv_start = 0
    /\ gets = 0
    /\ enq = << >>
    /\ ev = << >>

InitProxy ==
    /\ nu_in = << >>
    /\ nu_out = << >>
    /\ MainIdle
    /\ BackoffIdle
    /\ ToolsIdle
    /\ CrawlIdle
    /\ proxies \in SeqsUpTo(ProxyNames, MaxProxyList)
    /\ proxy_index \in (-1) .. (Len(proxies) - 1)
    /\ proxy_failures \in [ProxyNames -> (0 .. MaxFailCount)]
    /\ gnp_call = << >>

\* one call of get_next_proxy on the current pool state
CallGetNextProxy ==
    /\ gnp_call = << >>
    /\ LET r == get_next_proxy(proxies, proxy_index, proxy_failures)
       IN  /\ proxy_index' = r.index
           /\ proxy_failures' = r.failures
           /\ gnp_call' = << [pre_index |-> proxy_index, pre_failures |-> proxy_failures,
                              proxy |-> r.proxy, examined |-> r.examined,
                              reset |-> r.reset] >>
    /\ UNCHANGED << proxies, pureVars, crawlVars >>

\* the caller goes on; the pool state stays as the call left it
ReturnFromCall ==
    /\ gnp_call # << >>
    /\ gnp_call' = << >>
    /\ UNCHANGED << proxies, proxy_index, proxy_failures, pureVars, crawlVars >>

NextProxy == CallGetNextProxy \/ ReturnFromCall

SpecProxy == InitProxy /\ [][NextProxy]_vars

(***************************************************************************)
(* normalize_url on pairs of raw URLs.                                     *)
(***************************************************************************)
NormHosts ==
    { << "www", "fragrantica", "com" >>, << "WWW", "FRAGRANTICA", "COM" >>,
      << "fragrantica", "com" >>, << "Fragrantica", "COM" >>,
      << "fragrantica", "com", "example", "org" >>, << "example", "org" >> }

NormPaths ==
    { << "perfume", "Chanel", "No5-1.html" >>, << "designers", "Chanel.html" >> }

NormUrls ==
    [scheme : {"https", ""}, host : NormHosts, path : NormPaths,
     frag : {"", "reviews"}]

InitNorm ==
    /\ nu_in \in NormUrls \X NormUrls
    /\ nu_out = << >>
    /\ proxies = << >>
    /\ proxy_index = -1
    /\ proxy_failures = NoFailures
    /\ gnp_call = << >>
    /\ MainIdle
    /\ BackoffIdle
    /\ ToolsIdle
    /\ CrawlIdle

\* normalize_url applied to both inputs
ApplyNormalize ==
    /\ nu_out = << >>
    /\ nu_out' = << normalize_url(nu_in[1]), normalize_url(nu_in[2]) >>
    /\ UNCHANGED << nu_in, proxyVars, crawlVars, mainVars, backoffVars, toolVars >>

\* the next pair of inputs
NextInputs ==
    /\ nu_out # << >>
    /\ nu_in' \in NormUrls \X NormUrls
    /\ nu_out' = << >>
    /\ UNCHANGED << proxyVars, crawlVars, mainVars, backoffVars, toolVars >>

NextNorm == ApplyNormalize \/ NextInputs

SpecNorm == InitNorm /\ [][NextNorm]_vars

(***************************************************************************)
(* The site the crawl runs against: four pages and their anchors.          *)
(***************************************************************************)
Abs(h, p, f) == [scheme |-> "https", host |-> h, path |-> p, frag |-> f]
Rel(p, f)    == [scheme |-> "", host |-> << >>, path |-> p, frag |-> f]

H1 == Abs(Domain, << "designers", "Chanel.html" >>, "")
P1 == Abs(Domain, << "perfume", "Chanel", "No5-1.html" >>, "")
P2 == Abs(Domain, << "perfume", "Chanel", "Chance-2.html" >>, "")
P3 == Abs(Domain, << "perfume", "Dior", "Sauvage-3.html" >>, "")
RobotsUrl == Abs(Domain, << "robots.txt" >>, "")

\* the href attributes of the document served at u, in document order
Anchors(u) ==
    CASE u = H1 -> << Rel(P1.path, ""),
                      Abs(<< "fragrantica", "com" >>, P2.path, ""),
                      Rel(P3.path, ""),
                      Rel(P1.path, "reviews"),
                      Abs(Domain, << "board", "index.html" >>, "") >>
      [] u = P1 -> << Rel(H1.path, ""),
                      Abs(<< "WWW", "FRAGRANTICA", "COM" >>, P2.path, ""),
                      Abs(<< "example", "org" >>, << "x.html" >>, "") >>
      [] u = P2 -> << Rel(P1.path, "top"),
                      Rel(<< "designers", "logo.png" >>, "") >>
      [] OTHER  -> << Rel(H1.path, "") >>

\* where the transport may end up when asked for u (it follows redirects)
FinalUrls(u) ==
    CASE u = P1 -> {P1, P2}
      [] u = P2 -> {P2, H1}
      [] OTHER  -> {u}

\* what a fetched document may contain: a "Designer" label, a heading and the
\* rating sentence, or none of the three
Contents ==
    { [label |-> "Chanel", heading |-> "Title", rated |-> TRUE],
      [label |-> "None",   heading |-> "None",  rated |-> FALSE] }

(***************************************************************************)
(* URL shapes (config.py), link extraction (network.py) and page           *)
(* extraction (parsing.py).                                                *)
(***************************************************************************)
\* [^/]+-\d+\.html on the file names of the model
IsNameIdFile(seg) == seg \in {"No5-1.html", "Chance-2.html", "Sauvage-3.html"}

\* config.PERFUME_PATH_RE
PERFUME_PATH_RE(path) ==
    /\ Len(path) = 3
    /\ Lower(path[1]) = "perfume"
    /\ IsNameIdFile(path[3])

\* config.PERFUME_URL_RE: the whole string, so a fragment does not match
PERFUME_URL_RE(u) ==
    /\ u.scheme \in {"http", "https"}
    /\ LowerHost(u.host) \in {Domain, << "fragrantica", "com" >>}
    /\ PERFUME_PATH_RE(u.path)
    /\ u.frag = ""

\* urllib.parse.urljoin for absolute hrefs and absolute-path hrefs
urljoin(base, href) ==
    IF href.scheme # "" THEN href
    ELSE [scheme |-> base.scheme, host |-> base.host, path |-> href.path,
          frag |-> href.frag]

\* link.lower().endswith((".jpg", ".png", ...))
IsAsset(u) == u.path # << >> /\ u.path[Len(u.path)] \in {"logo.png"}

\* link_limit of crawl(): 20 perfume links per designer page
LinkLimit == 20

Range(f) == {f[i] : i \in DOMAIN f}

\* extract_links: the link sets it can return (random.sample picks the
\* positions when the page has more perfume links than the limit)
extract_links(base_url, anchors, limit_perfume_links) ==
    LET full == [i \in 1 .. Len(anchors) |-> normalize_url(urljoin(base_url, anchors[i]))]
        InDomain(u) == u # NoneUrl /\ u.host = Domain
        perfume_links  == SelectSeq(full, LAMBDA u : InDomain(u) /\ PERFUME_PATH_RE(u.path))
        designer_links == SelectSeq(full, LAMBDA u : /\ InDomain(u)
                                                  /\ ~PERFUME_PATH_RE(u.path)
                                                  /\ Len(u.path) >= 2
                                                  /\ u.path[1] = "designers")
        samples ==
            IF limit_perfume_links > 0 /\ Len(perfume_links) > limit_perfume_links
            THEN {{perfume_links[i] : i \in I} :
                     I \in {J \in SUBSET (1 .. Len(perfume_links)) :
                                Cardinality(J) = limit_perfume_links}}
            ELSE {Range(perfume_links)}
    IN  {{u \in Range(designer_links) \cup S : ~IsAsset(u)} : S \in samples}

\* the names the file names of the model carry: re.sub(r"-\d+\.html$", "", ...)
\* followed by the de-slug (hyphens to spaces)
NameOfFile(seg) ==
    CASE seg = "No5-1.html"     -> "No5"
      [] seg = "Chance-2.html"  -> "Chance"
      [] seg = "Sauvage-3.html" -> "Sauvage"
      [] OTHER                  -> seg

\* parsing.parse_brand_name_from_url
parse_brand_name_from_url(u) ==
    IF Len(u.path) >= 3 /\ Lower(u.path[1]) = "perfume"
    THEN [brand |-> u.path[2], name |-> NameOfFile(u.path[3])]
    ELSE [brand |-> "None", name |-> "None"]

\* parsing.scrape_perfume_page: page values first, URL-derived values as the
\* fallback; rating and votes only from the rating sentence
scrape_perfume_page(u, content) ==
    LET fromUrl == parse_brand_name_from_url(u)
    IN  [brand  |-> IF content.label # "None" THEN content.label ELSE fromUrl.brand,
         name   |-> IF content.heading # "None" THEN content.heading ELSE fromUrl.name,
         rating |-> IF content.rated THEN "4.2" ELSE "None",
         votes  |-> IF content.rated THEN "1234" ELSE "None"]

\* crawler._brand_to_designers_slug and _brand_to_perfume_slug on the brands
\* of the model (one word, no accents: the slug is the brand itself)
brand_to_designers_slug(brand) == brand
brand_to_perfume_slug(brand) == brand

\* the designers page of a brand: https://www.fragrantica.com/designers/<slug>.html
\* (<slug>.html on the slugs of the model)
HtmlFile(slug) == CASE slug = "Chanel" -> "Chanel.html" [] OTHER -> "Dior.html"

BrandUrl(brand) ==
    Abs(Domain, << "designers", HtmlFile(brand_to_designers_slug(brand)) >>, "")

\* session.get(u): one GET request for u is issued
Get(u) == gets' = gets + (IF u = watch THEN 1 ELSE 0)

\* history counters: a function from the URLs counted so far
Count(f, u) == IF u \in DOMAIN f THEN f[u] ELSE 0

\* all orders in which a set can be iterated
Orders(S) == {o \in [(1 .. Cardinality(S)) -> S] : Range(o) = S}

(***************************************************************************)
(* One crawl() invocation: the start state.                                *)
(***************************************************************************)
\* crawl(): MAX_RETRIES = 3; _scrape_brand_simple(): max_retries = 3
MAX_RETRIES_four == 3 + 1

MAX_RETRIES == 3

\* --start-url lists of the model: a hub, the same detail page twice (bare
\* host and fragment the second time), and seeds that are all rejected (out of
\* domain, no scheme)
SeedLists ==
    { << H1 >>,
      << P1, Abs(<< "fragrantica", "com" >>, P1.path, "reviews") >>,
      << Abs(<< "example", "org" >>, << "x.html" >>, ""), Rel(P1.path, "") >> }

\* the largest --max-pages, --session-size and --rotate-every of the model
\* (--session-size and --rotate-every are equal, --max-pages is 0 or the same)
MaxArg == 1

Row(u, data) ==
    [url |-> u, brand |-> data.brand, name |-> data.name,
     rating |-> data.rating, votes |-> data.votes]

RowOf(u) == Row(u, scrape_perfume_page(u, [label |-> "Chanel", heading |-> "Title",
                                           rated |-> TRUE]))

\* the output CSV as earlier runs left it: one row per URL
StoredCsvs == { << >>, << RowOf(P2) >> }

Init ==
    /\ nu_in = << >>
    /\ nu_out = << >>
    /\ MainIdle
    /\ BackoffIdle
    /\ ToolsIdle
    /\ proxies \in { << >>, << "pA" >> }
    /\ proxy_index = -1
    /\ proxy_failures = NoFailures
    /\ gnp_call = << >>
    /\ \E b \in {"", "Chanel"} :
         \E su \in (IF b = "" THEN SeedLists ELSE {<< >>}) :
           \E m \in 0 .. MaxArg : \E mp \in {0, m} :
             args = [brand |-> b, start_url |-> su, max_pages |-> mp,
                     session_size |-> m, rotate_every |-> m,
                     saved_since_break |-> 0, saved_since_break_end |-> -1]
    /\ site_disallow \in { {}, {P2} }
    /\ pc = "start"
    /\ rp_parsed = FALSE
    /\ queue = << >>
    /\ seen = {}
    /\ existing_urls = {}
    /\ csv_rows \in StoredCsvs
    /\ url = NoneUrl
    /\ attempt = 0
    /\ current_proxy = "None"
    /\ pages_processed = 0
    /\ requests_since_rotate = 0
    /\ saved_since_break = 0
    /\ perfume_urls = << >>
    /\ idx = 0
    /\ failed_urls = << >>
    /\ retry_idx = 0
    /\ watch \in {P1, P2}
    /\ csv_start = Len(csv_rows)
    /\ gets = 0
    /\ enq = << >>
    /\ ev = << >>

(***************************************************************************)
(* Helpers of both loops.                                                  *)
(***************************************************************************)
\* storage.load_existing_urls: the url column of every row, empty ones dropped
load_existing_urls(rows) ==
    {rows[i].url : i \in {j \in DOMAIN rows : rows[j].url # NoneUrl}}

\* proxy_failures[current_proxy] = proxy_failures.get(current_proxy, 0) + 1
RecordFailure(fails, cp) ==
    IF cp # "None" THEN [fails EXCEPT ![cp] = @ + 1] ELSE fails

\* a success that clears the counter of the proxy
RecordSuccess_clear(fails, cp) ==
    IF cp # "None" THEN [fails EXCEPT ![cp] = 0] ELSE fails

\* proxy_failures[current_proxy] = max(0, proxy_failures[current_proxy] - 1)
RecordSuccess(fails, cp) ==
    IF cp # "None" THEN [fails EXCEPT ![cp] = IF @ > 0 THEN @ - 1 ELSE 0] ELSE fails

can_fetch_permissive(parsed, disallow, u) == u \notin disallow

\* network.can_fetch: RobotFileParser.can_fetch answers False until a
\* robots.txt has been parsed
can_fetch(parsed, disallow, u) == parsed /\ u \notin disallow

\* args.max_pages <= 0 or pages_processed < args.max_pages
Budget_le(pp) == args.max_pages <= 0 \/ pp <= args.max_pages

Budget(pp) == args.max_pages <= 0 \/ pp < args.max_pages

\* url.startswith("https://www.fragrantica.com/designers/")
IsDesignerPage(u) ==
    /\ u.scheme = "https"
    /\ u.host = Domain
    /\ Len(u.path) >= 2
    /\ u.path[1] = "designers"

\* data["brand"] and data["name"] and rating/votes present
Complete_unrated(data) ==
    /\ data.brand # "None"
    /\ data.name # "None"

Complete(data) ==
    /\ data.brand # "None"
    /\ data.name # "None"
    /\ data.rating # "None"
    /\ data.votes # "None"

\* 2 ** n
RECURSIVE Pow2(_)
Pow2(n) == IF n <= 0 THEN 1 ELSE 2 * Pow2(n - 1)

Max(a, b) == IF a >= b THEN a ELSE b

\* time.sleep(seconds) in a retry loop
FixedSleep(seconds) == [lo |-> seconds, hi |-> seconds]

\* backoff_sleep(resp, args.delay_seconds, attempt) in a retry loop
BackoffSleep == [lo |-> "backoff_sleep", hi |-> "backoff_sleep"]

\* the sleep of crawl() before the retry that follows a 429 or 403
CrawlRateLimitSleep(ps, k) == FixedSleep(5 * Pow2(k - 1))

\* the sleep of _scrape_brand_simple() before the retry that follows a 429 or
\* 403: 5 * 2 ** (attempt - 1) with proxies, 30 * 2 ** (attempt - 1) without
BrandRateLimitSleep(ps, k) ==
    IF Len(ps) > 0 THEN FixedSleep(5 * Pow2(k - 1)) ELSE FixedSleep(30 * Pow2(k - 1))

Occurrences(s, x) == Cardinality({i \in DOMAIN s : s[i] = x})

\* 429/403 before the last attempt: `if proxies:` rotate_identity()
RateLimitRotates_never(ps) == FALSE

RateLimitRotates(ps) == Len(ps) > 0

\* no time.sleep call
NoSleep == [lo |-> "none", hi |-> "none"]

\* network.polite_sleep(delay_min, delay_max): a sleep drawn from the range; the
\* bounds are kept as the expressions over d = args.delay_seconds
PoliteSleep(delay_min, delay_max) == [lo |-> delay_min, hi |-> delay_max]

\* no cooldown sleep: zero seconds
NoCooldown == [lo |-> 0, hi |-> 0]

\* --session-break-seconds (its default)
session_break_seconds == 900

\* network.session_sleep(total_seconds, jitter_ratio): the range the sleep is
\* drawn from; jitter_ratio in percent
session_sleep(total_seconds, jitter_pct) ==
    IF total_seconds <= 0 THEN NoCooldown
    ELSE LET jitter == (total_seconds * jitter_pct) \div 100
         IN  [lo |-> IF total_seconds - jitter > 0 THEN total_seconds - jitter ELSE 0,
              hi |-> total_seconds + jitter]

(***************************************************************************)
(* crawl(), frontier mode (no brand).                                      *)
(***************************************************************************)
\* lines 481-597: load the known URLs, fetch robots.txt, seed the queue,
\* exit(2) without a seed, else install the first identity
CrawlSetup ==
    /\ pc = "start"
    /\ args.brand = ""
    /\ existing_urls' = load_existing_urls(csv_rows)
    /\ \E robots_ok \in BOOLEAN : rp_parsed' = robots_ok
    /\ UNCHANGED gets
    /\ LET normed   == [i \in 1 .. Len(args.start_url) |-> normalize_url(args.start_url[i])]
           accepted == SelectSeq(normed, LAMBDA su : su # NoneUrl /\ su.host = Domain)
           r        == get_next_proxy(proxies, proxy_index, proxy_failures)
       IN  /\ queue' = accepted
           /\ seen' = Range(accepted)
           /\ enq' = [u \in Range(accepted) |-> Occurrences(accepted, u)]
           /\ IF accepted = << >>
              THEN /\ pc' = "exit"
                   /\ UNCHANGED << proxy_index, proxy_failures, current_proxy >>
              ELSE /\ pc' = "loop"
                   /\ proxy_index' = r.index
                   /\ proxy_failures' = r.failures
                   /\ current_proxy' = r.proxy
    /\ saved_since_break' = args.saved_since_break
    /\ ev' = << [op |-> "setup", requests |-> << RobotsUrl >>] >>
    /\ UNCHANGED << pureVars, proxies, gnp_call, args, site_disallow, csv_rows, url,
                    attempt, pages_processed, requests_since_rotate, perfume_urls,
                    idx, failed_urls, retry_idx, watch, csv_start >>

\* lines 602-625: pop the next URL; skip it when robots disallows it or when
\* it is a known detail page; else rotate by volume and enter the retry loop
Pop ==
    /\ pc = "loop"
    /\ queue # << >>
    /\ Budget(pages_processed)
    /\ LET u == Head(queue)
           rotate == args.rotate_every > 0 /\ requests_since_rotate >= args.rotate_every
           r == get_next_proxy(proxies, proxy_index, proxy_failures)
       IN  /\ queue' = Tail(queue)
           /\ url' = u
           /\ IF ~can_fetch(rp_parsed, site_disallow, u)
              THEN /\ ev' = << [op |-> "robots_skip", url |-> u] >>
                   /\ UNCHANGED << pc, attempt, proxy_index, proxy_failures,
                                   current_proxy, requests_since_rotate >>
              ELSE IF PERFUME_URL_RE(u) /\ u \in existing_urls
              THEN /\ ev' = << [op |-> "known_skip", url |-> u] >>
                   /\ UNCHANGED << pc, attempt, proxy_index, proxy_failures,
                                   current_proxy, requests_since_rotate >>
              ELSE /\ ev' = << [op |-> "pop", url |-> u] >>
                   /\ pc' = "fetch"
                   /\ attempt' = 1
                   /\ proxy_index' = IF rotate THEN r.index ELSE proxy_index
                   /\ proxy_failures' = IF rotate THEN r.failures ELSE proxy_failures
                   /\ current_proxy' = IF rotate THEN r.proxy ELSE current_proxy
                   /\ requests_since_rotate' = IF rotate THEN 0 ELSE requests_since_rotate
    /\ UNCHANGED << pureVars, proxies, gnp_call, args, site_disallow, rp_parsed, seen,
                    existing_urls, csv_rows, pages_processed, saved_since_break,
                    perfume_urls, idx, failed_urls, retry_idx, watch, csv_start,
                    gets, enq >>

\* what the fetch actions of crawl() leave alone
FetchFrame ==
    UNCHANGED << pureVars, proxies, gnp_call, args, site_disallow, rp_parsed,
                 perfume_urls, idx, failed_urls, retry_idx, watch, csv_start >>

\* a give-up that counts as a processed page
GiveUp_counted(fails, what, cause, delay) ==
    /\ pc' = "loop"
    /\ proxy_failures' = fails
    /\ ev' = << [op |-> what, url |-> url, attempt |-> attempt, cause |-> cause,
                 slept |-> delay] >>
    /\ url' = NoneUrl
    /\ attempt' = 0
    /\ pages_processed' = pages_processed + 1
    /\ UNCHANGED << proxy_index, current_proxy, requests_since_rotate, queue, seen,
                    existing_urls, csv_rows, saved_since_break, enq >>

\* the URL is given up or skipped: back to the top of the while loop (url and
\* attempt are assigned anew before they are read again: the model clears them)
GiveUp(fails, what, cause, delay) ==
    /\ pc' = "loop"
    /\ proxy_failures' = fails
    /\ ev' = << [op |-> what, url |-> url, attempt |-> attempt, cause |-> cause,
                 slept |-> delay] >>
    /\ url' = NoneUrl
    /\ attempt' = 0
    /\ UNCHANGED << proxy_index, current_proxy, requests_since_rotate, queue, seen,
                    existing_urls, csv_rows, pages_processed, saved_since_break,
                    enq >>

\* the same URL is tried again, after rotate_identity() when rotate holds
Retry(fails, rotate, what, delay) ==
    LET r == get_next_proxy(proxies, proxy_index, fails)
    IN  /\ pc' = "fetch"
        /\ attempt' = attempt + 1
        /\ proxy_index' = IF rotate THEN r.index ELSE proxy_index
        /\ proxy_failures' = IF rotate THEN r.failures ELSE fails
        /\ current_proxy' = IF rotate THEN r.proxy ELSE current_proxy
        /\ requests_since_rotate' = IF rotate THEN 0 ELSE requests_since_rotate
        /\ ev' = << [op |-> what, url |-> url, attempt |-> attempt, rotated |-> rotate,
                     slept |-> delay] >>
        /\ UNCHANGED << queue, seen, existing_urls, csv_rows, url, pages_processed,
                        saved_since_break, enq >>

\* lines 641-673: ProxyError, Timeout or ConnectionError
FetchTransportError ==
    /\ pc = "fetch"
    /\ Get(url)
    /\ LET fails == RecordFailure(proxy_failures, current_proxy)
       IN  IF attempt < MAX_RETRIES /\ Len(proxies) > 0
           THEN Retry(fails, TRUE, "retry_transport", FixedSleep(2 * attempt))
           ELSE GiveUp(fails, "gave_up", "transport", NoSleep)
    /\ FetchFrame

\* lines 675-683: any other requests.RequestException
FetchRequestException ==
    /\ pc = "fetch"
    /\ Get(url)
    /\ IF attempt >= MAX_RETRIES
       THEN GiveUp(proxy_failures, "gave_up", "exception", NoSleep)
       ELSE Retry(proxy_failures, FALSE, "retry_exception", BackoffSleep)
    /\ FetchFrame

\* lines 688-704: status 429 or 403
FetchRateLimited ==
    /\ pc = "fetch"
    /\ Get(url)
    /\ IF attempt < MAX_RETRIES
       THEN Retry(RecordFailure(proxy_failures, current_proxy),
                  RateLimitRotates(proxies), "retry_ratelimit",
                  CrawlRateLimitSleep(proxies, attempt))
       ELSE GiveUp(proxy_failures, "gave_up", "ratelimit", PoliteSleep("d", "d+1.0"))
    /\ FetchFrame

\* lines 706-714: status 500, 502, 503 or 504
FetchServerError ==
    /\ pc = "fetch"
    /\ Get(url)
    /\ IF attempt < MAX_RETRIES
       THEN Retry(proxy_failures, FALSE, "retry_server", BackoffSleep)
       ELSE GiveUp(proxy_failures, "gave_up", "server", PoliteSleep("d", "d+1.0"))
    /\ FetchFrame

\* lines 715-718: another status, or a content type that is not text/html
FetchSkip ==
    /\ pc = "fetch"
    /\ Get(url)
    /\ GiveUp(proxy_failures, "skipped", "status", PoliteSleep("d", "d+1.0"))
    /\ FetchFrame

\* lines 720-850: status 200 with HTML: store the record of a detail page,
\* count it, cool down after session_size saves, queue the new links
FetchSuccess ==
    /\ pc = "fetch"
    /\ Get(url)
    /\ \E final \in FinalUrls(url), content \in Contents :
         LET fails1   == RecordSuccess(proxy_failures, current_proxy)
             perfume  == PERFUME_URL_RE(url)
             u1       == IF perfume THEN final ELSE url
             data     == scrape_perfume_page(u1, content)
             known    == u1 \in existing_urls
             save     == perfume /\ Complete(data) /\ ~known
             pp1      == pages_processed + (IF perfume THEN 1 ELSE 0)
             ssb1     == saved_since_break + (IF save THEN 1 ELSE 0)
             cooldown == /\ save
                         /\ args.session_size > 0
                         /\ ssb1 >= args.session_size
                         /\ queue # << >>
                         /\ Budget(pp1)
             r        == get_next_proxy(proxies, proxy_index, fails1)
             limit    == IF IsDesignerPage(u1) THEN LinkLimit ELSE 0
         IN  /\ url' = NoneUrl
             /\ attempt' = 0
             /\ csv_rows' = IF save THEN Append(csv_rows, Row(u1, data)) ELSE csv_rows
             /\ existing_urls' = IF save THEN existing_urls \cup {u1} ELSE existing_urls
             /\ pages_processed' = pp1
             /\ requests_since_rotate' = requests_since_rotate + 1
             /\ saved_since_break' = IF cooldown THEN 0 ELSE ssb1
             /\ proxy_index' = IF cooldown THEN r.index ELSE proxy_index
             /\ proxy_failures' = IF cooldown THEN r.failures ELSE fails1
             /\ current_proxy' = IF cooldown THEN r.proxy ELSE current_proxy
             /\ \E links \in (IF Budget(pp1)
                              THEN extract_links(u1, Anchors(final), limit)
                              ELSE {{}}) :
                  \E order \in Orders(links \ seen) :
                     /\ queue' = queue \o order
                     /\ seen' = seen \cup (links \ seen)
                     /\ enq' = [x \in (DOMAIN enq) \cup (links \ seen) |->
                                   Count(enq, x) + (IF x \in links \ seen THEN 1 ELSE 0)]
             /\ ev' = << [op |-> "fetched", requested |-> url, url |-> u1,
                          detail |-> perfume, data |-> data, known |-> known,
                          final |-> final, saved |-> save,
                          recovered |-> (attempt = 2 /\ ev[1].op = "retry_ratelimit"),
                          cooldown |-> cooldown,
                          sleep |-> IF cooldown
                                    THEN session_sleep(session_break_seconds, 15)
                                    ELSE NoCooldown,
                          slept |-> IF IsDesignerPage(u1)
                                    THEN PoliteSleep("1.5d", "2.0d")
                                    ELSE PoliteSleep("d", "d+1.5")] >>
    /\ pc' = "loop"
    /\ FetchFrame

\* lines 852-857: the while loop is over
CrawlFinish ==
    /\ pc = "loop"
    /\ ~(queue # << >> /\ Budget(pages_processed))
    /\ pc' = "done"
    /\ args' = [args EXCEPT !.saved_since_break_end = saved_since_break]
    /\ ev' = << [op |-> "finish"] >>
    /\ UNCHANGED << pureVars, proxyVars, site_disallow, rp_parsed, queue, seen,
                    existing_urls, csv_rows, url, attempt, current_proxy,
                    pages_processed, requests_since_rotate, saved_since_break,
                    perfume_urls, idx, failed_urls, retry_idx, watch, csv_start,
                    gets, enq >>

(***************************************************************************)
(* _scrape_brand_simple(): brand mode (crawl() with a brand).              *)
(***************************************************************************)
\* the list s without repeated elements, first occurrences kept
RECURSIVE Dedupe(_, _)
Dedupe(s, seen_in_batch) ==
    IF s = << >> THEN << >>
    ELSE IF Head(s) \in seen_in_batch THEN Dedupe(Tail(s), seen_in_batch)
         ELSE << Head(s) >> \o Dedupe(Tail(s), seen_in_batch \cup {Head(s)})

\* lines 179-180: a href that starts with /perfume/ is made absolute
BrandAbsolute(href) ==
    IF href.scheme = "" /\ Len(href.path) >= 2 /\ href.path[1] = "perfume"
    THEN [href EXCEPT !.scheme = "https", !.host = Domain]
    ELSE href

\* lines 183-198: a perfume URL whose brand segment is the brand's slug
BrandLinkWanted_any(href, brand) == PERFUME_URL_RE(href)

BrandLinkWanted(href, brand) ==
    /\ PERFUME_URL_RE(href)
    /\ Lower(href.path[2]) = Lower(brand_to_perfume_slug(brand))

\* lines 200-202: not yet in the known-URL set
BrandLinkNew_all(u, known) == u # NoneUrl

BrandLinkNew(u, known) == u # NoneUrl /\ u \notin known

\* lines 174-223: the work list built from the brand page
BrandWorkList(anchors, brand, known, max_pages) ==
    LET absolute == [i \in 1 .. Len(anchors) |-> BrandAbsolute(anchors[i])]
        wanted   == SelectSeq(absolute, LAMBDA h : BrandLinkWanted(h, brand))
        full     == [i \in 1 .. Len(wanted) |-> normalize_url(wanted[i])]
        fresh    == SelectSeq(full, LAMBDA u : BrandLinkNew(u, known))
        unique   == Dedupe(fresh, {})
    IN  IF max_pages > 0 /\ Len(unique) > max_pages
        THEN SubSeq(unique, 1, max_pages)
        ELSE unique

BrandFrame ==
    UNCHANGED << pureVars, proxies, gnp_call, args, site_disallow, rp_parsed, queue,
                 seen, pages_processed, perfume_urls, retry_idx, watch, csv_start, enq >>

\* lines 117-230: load the known URLs, pick the first proxy, fetch the brand
\* page and build the work list; return 0 when the fetch fails or nothing is new
BrandSetup ==
    /\ pc = "start"
    /\ args.brand # ""
    /\ existing_urls' = load_existing_urls(csv_rows)
    /\ Get(BrandUrl(args.brand))
    /\ LET r == get_next_proxy(proxies, proxy_index, proxy_failures)
       IN  /\ proxy_index' = r.index
           /\ current_proxy' = r.proxy
           /\ \E fetched \in BOOLEAN :
                LET work == IF fetched
                            THEN BrandWorkList(Anchors(BrandUrl(args.brand)), args.brand,
                                               load_existing_urls(csv_rows), args.max_pages)
                            ELSE << >>
                IN  /\ perfume_urls' = work
                    /\ pc' = IF work = << >> THEN "done" ELSE "brand_loop"
                    /\ proxy_failures' = IF work = << >> THEN r.failures ELSE NoFailures
                    /\ ev' = << [op |-> "brand_setup", hub_fetched |-> fetched] >>
    /\ saved_since_break' = args.saved_since_break
    /\ UNCHANGED << pureVars, proxies, gnp_call, args, site_disallow, rp_parsed, queue,
                    seen, csv_rows, url, attempt, pages_processed,
                    requests_since_rotate, idx, failed_urls, retry_idx, watch,
                    csv_start, enq >>

\* lines 232-256: the next work-list entry: rotate by volume, enter the retry loop
BrandNext ==
    /\ pc = "brand_loop"
    /\ idx < Len(perfume_urls)
    /\ LET rotate == args.rotate_every > 0 /\ requests_since_rotate >= args.rotate_every
           r == get_next_proxy(proxies, proxy_index, proxy_failures)
       IN  /\ proxy_index' = IF rotate THEN r.index ELSE proxy_index
           /\ proxy_failures' = IF rotate THEN r.failures ELSE proxy_failures
           /\ current_proxy' = IF rotate THEN r.proxy ELSE current_proxy
           /\ requests_since_rotate' = IF rotate THEN 0 ELSE requests_since_rotate
    /\ idx' = idx + 1
    /\ url' = perfume_urls[idx + 1]
    /\ attempt' = 1
    /\ pc' = "brand_fetch"
    /\ ev' = << [op |-> "brand_next", url |-> perfume_urls[idx + 1]] >>
    /\ UNCHANGED << existing_urls, csv_rows, saved_since_break, failed_urls, gets >>
    /\ BrandFrame

\* lines 346-348: the retry loop ended without a document
BrandFail(fails, cause) ==
    /\ pc' = "brand_loop"
    /\ proxy_failures' = fails
    /\ failed_urls' = Append(failed_urls, url)
    /\ url' = NoneUrl
    /\ attempt' = 0
    /\ ev' = << [op |-> "brand_failed", url |-> url, cause |-> cause] >>
    /\ UNCHANGED << proxy_index, current_proxy, requests_since_rotate, existing_urls,
                    csv_rows, saved_since_break, idx >>

\* continue: the next attempt for the same URL
BrandAgain(fails, rotate, what, delay) ==
    LET r == get_next_proxy(proxies, proxy_index, fails)
    IN  /\ pc' = "brand_fetch"
        /\ attempt' = attempt + 1
        /\ proxy_index' = IF rotate THEN r.index ELSE proxy_index
        /\ proxy_failures' = IF rotate THEN r.failures ELSE fails
        /\ current_proxy' = IF rotate THEN r.proxy ELSE current_proxy
        /\ requests_since_rotate' = IF rotate THEN 0 ELSE requests_since_rotate
        /\ ev' = << [op |-> what, url |-> url, attempt |-> attempt, rotated |-> rotate,
                     slept |-> delay] >>
        /\ UNCHANGED << existing_urls, csv_rows, saved_since_break, idx, failed_urls,
                        url >>

\* lines 261-288: status 429 or 403
BrandRateLimited ==
    /\ pc = "brand_fetch"
    /\ Get(url)
    /\ IF attempt < MAX_RETRIES /\ RateLimitRotates(proxies)
       THEN BrandAgain(RecordFailure(proxy_failures, current_proxy), TRUE,
                       "retry_ratelimit", BrandRateLimitSleep(proxies, attempt))
       ELSE IF attempt < MAX_RETRIES
            THEN BrandAgain(proxy_failures, FALSE, "retry_ratelimit",
                            BrandRateLimitSleep(proxies, attempt))
            ELSE BrandFail(proxy_failures, "ratelimit")
    /\ BrandFrame

\* lines 290-292: any other status than 200, the 5xx statuses included
BrandBadStatus ==
    /\ pc = "brand_fetch"
    /\ Get(url)
    /\ \E status \in {"server", "status"} : BrandFail(proxy_failures, status)
    /\ BrandFrame

\* lines 302-336: ProxyError, Timeout or ConnectionError
BrandTransportError ==
    /\ pc = "brand_fetch"
    /\ Get(url)
    /\ LET fails == RecordFailure(proxy_failures, current_proxy)
       IN  IF attempt < MAX_RETRIES /\ Len(proxies) > 0
           THEN BrandAgain(fails, TRUE, "retry_transport", FixedSleep(2 * attempt))
           ELSE BrandFail(fails, "transport")
    /\ BrandFrame

\* lines 338-344: any other exception
BrandOtherException ==
    /\ pc = "brand_fetch"
    /\ Get(url)
    /\ IF attempt < MAX_RETRIES
       THEN BrandAgain(proxy_failures, FALSE, "retry_exception", FixedSleep(5 * attempt))
       ELSE BrandFail(proxy_failures, "exception")
    /\ BrandFrame

\* lines 294-300 and 350-400: status 200: store the record, count the save,
\* cool down after session_size saves
BrandSuccess ==
    /\ pc = "brand_fetch"
    /\ Get(url)
    /\ \E final \in FinalUrls(url), content \in Contents :
         LET fails1   == RecordSuccess(proxy_failures, current_proxy)
             data     == scrape_perfume_page(url, content)
             save     == Complete(data)
             ssb1     == saved_since_break + (IF save THEN 1 ELSE 0)
             cooldown == /\ args.session_size > 0
                         /\ ssb1 >= args.session_size
                         /\ Len(perfume_urls) - idx > 0
             r        == get_next_proxy(proxies, proxy_index, fails1)
         IN  /\ csv_rows' = IF save THEN Append(csv_rows, Row(final, data)) ELSE csv_rows
             /\ existing_urls' = IF save THEN existing_urls \cup {final} ELSE existing_urls
             /\ requests_since_rotate' = requests_since_rotate + 1
             /\ saved_since_break' = IF cooldown THEN 0 ELSE ssb1
             /\ proxy_index' = IF cooldown THEN r.index ELSE proxy_index
             /\ proxy_failures' = IF cooldown THEN r.failures ELSE fails1
             /\ current_proxy' = IF cooldown THEN r.proxy ELSE current_proxy
             /\ ev' = << [op |-> "fetched", requested |-> url, url |-> final,
                          detail |-> TRUE, data |-> data,
                          known |-> final \in existing_urls,
                          final |-> final, saved |-> save,
                          recovered |-> (attempt = 2 /\ ev[1].op = "retry_ratelimit"),
                          cooldown |-> cooldown,
                          sleep |-> IF cooldown
                                    THEN [lo |-> session_break_seconds,
                                          hi |-> session_break_seconds]
                                    ELSE NoCooldown,
                          slept |-> NoSleep] >>
    /\ pc' = "brand_loop"
    /\ url' = NoneUrl
    /\ attempt' = 0
    /\ UNCHANGED << idx, failed_urls >>
    /\ BrandFrame

\* lines 402-418 and 439-442: the retry pass: one more GET for a failed URL,
\* through the next proxy, that does not yield a document
BrandRetryFailed ==
    /\ pc = "brand_loop"
    /\ idx = Len(perfume_urls)
    /\ retry_idx < Len(failed_urls)
    /\ retry_idx' = retry_idx + 1
    /\ Get(failed_urls[retry_idx + 1])
    /\ LET r == get_next_proxy(proxies, proxy_index, proxy_failures)
       IN  /\ proxy_index' = r.index
           /\ proxy_failures' = r.failures
           /\ current_proxy' = r.proxy
    /\ ev' = << [op |-> "retry_pass_failed", url |-> failed_urls[retry_idx + 1]] >>
    /\ UNCHANGED << pureVars, proxies, gnp_call, args, site_disallow, pc, rp_parsed,
                    queue, seen, existing_urls, csv_rows, url, attempt,
                    pages_processed, requests_since_rotate, saved_since_break,
                    perfume_urls, idx, failed_urls, watch, csv_start, enq >>

\* lines 402-438: the retry pass: one more GET for a failed URL that returns
\* status 200; the record is stored under the requested URL
BrandRetrySuccess ==
    /\ pc = "brand_loop"
    /\ idx = Len(perfume_urls)
    /\ retry_idx < Len(failed_urls)
    /\ retry_idx' = retry_idx + 1
    /\ Get(failed_urls[retry_idx + 1])
    /\ LET r == get_next_proxy(proxies, proxy_index, proxy_failures)
       IN  /\ proxy_index' = r.index
           /\ proxy_failures' = r.failures
           /\ current_proxy' = r.proxy
    /\ \E final \in FinalUrls(failed_urls[retry_idx + 1]), content \in Contents :
         LET u    == failed_urls[retry_idx + 1]
             data == scrape_perfume_page(u, content)
             save == Complete(data)
         IN  /\ csv_rows' = IF save THEN Append(csv_rows, Row(u, data)) ELSE csv_rows
             /\ existing_urls' = IF save THEN existing_urls \cup {u} ELSE existing_urls
             /\ ev' = << [op |-> "fetched", requested |-> u, url |-> u,
                          detail |-> TRUE, data |-> data,
                          known |-> u \in existing_urls,
                          final |-> final, saved |-> save,
                          recovered |-> FALSE, cooldown |-> FALSE, sleep |-> NoCooldown,
                          slept |-> NoSleep] >>
    /\ UNCHANGED << pureVars, proxies, gnp_call, args, site_disallow, pc, rp_parsed,
                    queue, seen, url, attempt, pages_processed,
                    requests_since_rotate, saved_since_break, perfume_urls, idx,
                    failed_urls, watch, csv_start, enq >>

\* lines 444-453: both passes are over
BrandFinish ==
    /\ pc = "brand_loop"
    /\ idx = Len(perfume_urls)
    /\ retry_idx = Len(failed_urls)
    /\ pc' = "done"
    /\ args' = [args EXCEPT !.saved_since_break_end = saved_since_break]
    /\ ev' = << [op |-> "finish"] >>
    /\ UNCHANGED << pureVars, proxyVars, site_disallow, rp_parsed, queue, seen,
                    existing_urls, csv_rows, url, attempt, current_proxy,
                    pages_processed, requests_since_rotate, saved_since_break,
                    perfume_urls, idx, failed_urls, retry_idx, watch, csv_start,
                    gets, enq >>

Next ==
    \/ CrawlSetup
    \/ Pop
    \/ FetchTransportError
    \/ FetchRequestException
    \/ FetchRateLimited
    \/ FetchServerError
    \/ FetchSkip
    \/ FetchSuccess
    \/ CrawlFinish
    \/ BrandSetup
    \/ BrandNext
    \/ BrandRateLimited
    \/ BrandBadStatus
    \/ BrandTransportError
    \/ BrandOtherException
    \/ BrandSuccess
    \/ BrandRetryFailed
    \/ BrandRetrySuccess
    \/ BrandFinish

Spec == Init /\ [][Next]_vars

(***************************************************************************)
(* The sleeps of one retry sequence of crawl().  Time is counted in half   *)
(* seconds, so the 1.5 s of jitter are 3 units.                            *)
(***************************************************************************)
\* the width of the jitter window of backoff_sleep: sleep_max = sleep_min + 1.5
JITTER_UNITS == 3

\* args.delay_seconds: 0 s, 1 s and the default of 5 s
BaseDelays == {0, 2, 10}

\* the Retry-After header: absent, not a number (an HTTP date), or seconds
NoHeader == [kind |-> "absent", seconds |-> 0]
NotNumeric == [kind |-> "date", seconds |-> 0]
RetryAfterSeconds(n) == [kind |-> "seconds", seconds |-> n]
RetryAfters ==
    {NoHeader, NotNumeric, RetryAfterSeconds(0), RetryAfterSeconds(4),
     RetryAfterSeconds(240)}

\* backoff_sleep that ignores the Retry-After header
backoff_sleep_exponential(retry_after, base_delay, k, jitter) ==
    base_delay * Pow2(k - 1) + jitter

\* backoff_sleep(resp, base_delay, attempt): the duration slept, where jitter
\* is the position of the uniform draw in [sleep_min, sleep_min + 1.5]
backoff_sleep(retry_after, base_delay, k, jitter) ==
    IF retry_after.kind = "seconds"
    THEN Max(retry_after.seconds, base_delay)
    ELSE base_delay * Pow2(k - 1) + jitter

\* the crawl and main() are not part of this specification
InitBackoff ==
    /\ nu_in = << >>
    /\ nu_out = << >>
    /\ MainIdle
    /\ ToolsIdle
    /\ CrawlIdle
    /\ proxies = << >>
    /\ proxy_index = -1
    /\ proxy_failures = NoFailures
    /\ gnp_call = << >>
    /\ bo_class \in {"transport", "ratelimit", "server", "exception"}
    /\ bo_base \in BaseDelays
    /\ bo_sleeps = << >>

BackoffFrame ==
    UNCHANGED << nu_in, nu_out, mainVars, toolVars, proxyVars, crawlVars, bo_class,
                 bo_base >>

\* the attempt that has just failed
BoAttempt == Len(bo_sleeps) + 1

\* ProxyError, Timeout, ConnectionError: time.sleep(2 * attempt)
BackoffTransport ==
    /\ bo_class = "transport"
    /\ BoAttempt < MAX_RETRIES
    /\ bo_sleeps' = Append(bo_sleeps, 2 * (2 * BoAttempt))
    /\ BackoffFrame

\* 429 / 403: time.sleep(5 * 2 ** (attempt - 1))
BackoffRateLimit ==
    /\ bo_class = "ratelimit"
    /\ BoAttempt < MAX_RETRIES
    /\ bo_sleeps' = Append(bo_sleeps, 2 * (5 * Pow2(BoAttempt - 1)))
    /\ BackoffFrame

\* 500, 502, 503, 504: backoff_sleep(resp, args.delay_seconds, attempt)
BackoffServer ==
    /\ bo_class = "server"
    /\ BoAttempt < MAX_RETRIES
    /\ \E ra \in RetryAfters, j \in 0 .. JITTER_UNITS :
          bo_sleeps' = Append(bo_sleeps, backoff_sleep(ra, bo_base, BoAttempt, j))
    /\ BackoffFrame

\* any other RequestException: backoff_sleep(None, args.delay_seconds, attempt)
BackoffException ==
    /\ bo_class = "exception"
    /\ BoAttempt < MAX_RETRIES
    /\ \E j \in 0 .. JITTER_UNITS :
          bo_sleeps' = Append(bo_sleeps, backoff_sleep(NoHeader, bo_base, BoAttempt, j))
    /\ BackoffFrame

\* the last attempt failed as well: the URL is given up and the next URL
\* starts a new sequence
BackoffNextUrl ==
    /\ BoAttempt = MAX_RETRIES
    /\ bo_sleeps' = << >>
    /\ bo_class' \in {"transport", "ratelimit", "server", "exception"}
    /\ UNCHANGED << nu_in, nu_out, mainVars, toolVars, proxyVars, crawlVars, bo_base >>

NextBackoff ==
    \/ BackoffTransport
    \/ BackoffRateLimit
    \/ BackoffServer
    \/ BackoffException
    \/ BackoffNextUrl

SpecBackoff == InitBackoff /\ [][NextBackoff]_vars

(***************************************************************************)
(* main(): the multi-brand loop.  A --brands value or a line of the brands *)
(* file is its text without surrounding blanks (body) and whether blanks   *)
(* surround it (padded).                                                   *)
(***************************************************************************)
MaxBrandArgs == 1
MaxFileLines == 2
MaxSaved == 1

\* the --brands values of the model
BrandArgValues ==
    { [padded |-> FALSE, body |-> "Chanel"],
      [padded |-> TRUE,  body |-> "Dior"],
      [padded |-> TRUE,  body |-> ""] }

\* the lines of the brands file of the model
BrandFileLines ==
    { [padded |-> TRUE,  body |-> "chanel"],
      [padded |-> FALSE, body |-> "Dior"],
      [padded |-> FALSE, body |-> "Dior #1"],
      [padded |-> FALSE, body |-> "#note"],
      [padded |-> TRUE,  body |-> "#note"],
      [padded |-> FALSE, body |-> ""],
      [padded |-> TRUE,  body |-> ""] }

\* str.strip()
strip(line) == line.body

\* str.startswith("#") on the texts of the model
startswith_hash(s) == s \in {"#note", "#"}

\* str.casefold() on the texts of the model
casefold(s) == IF s = "Dior #1" THEN "dior #1" ELSE Lower(s)

\* the comparison key of a dedupe that does not fold case
exact(s) == s

\* _read_brands_file: the stripped lines that are neither empty nor comments
KeepLine(line) == strip(line) # "" /\ ~startswith_hash(strip(line))
read_brands_file(lines) ==
    LET kept == SelectSeq(lines, KeepLine)
    IN  [i \in 1 .. Len(kept) |-> strip(kept[i])]

\* [b.strip() for b in args.brands if b and b.strip()]
KeepArg(b) == strip(b) # ""
brands_from_args(bs) ==
    LET kept == SelectSeq(bs, KeepArg)
    IN  [i \in 1 .. Len(kept) |-> strip(kept[i])]

\* a dedupe on the exact text
RECURSIVE DedupeExactLoop(_, _, _)
DedupeExactLoop(items, seen_keys, out) ==
    IF items = << >> THEN out
    ELSE IF exact(Head(items)) \in seen_keys
         THEN DedupeExactLoop(Tail(items), seen_keys, out)
         ELSE DedupeExactLoop(Tail(items), seen_keys \cup {exact(Head(items))},
                              Append(out, Head(items)))

dedupe_exact_preserve_order(items) == DedupeExactLoop(items, {}, << >>)

\* _dedupe_casefold_preserve_order: the loop over items with its seen set
RECURSIVE DedupeLoop(_, _, _)
DedupeLoop(items, seen_keys, out) ==
    IF items = << >> THEN out
    ELSE IF casefold(Head(items)) \in seen_keys
         THEN DedupeLoop(Tail(items), seen_keys, out)
         ELSE DedupeLoop(Tail(items), seen_keys \cup {casefold(Head(items))},
                         Append(out, Head(items)))

dedupe_casefold_preserve_order(items) == DedupeLoop(items, {}, << >>)

\* saved_since_break_end is not set on the arguments
Unset == -1

\* a carry-over that starts at 0 again when the run set no value
CarryOver_reset(end, carried) == IF end = Unset THEN 0 ELSE end

\* int(getattr(per_brand_args, "saved_since_break_end", saved_since_break) or 0)
CarryOver(end, carried) == IF end = Unset THEN carried ELSE end

\* the crawl, the proxy pool and the retry sleeps are not part of this
\* specification
\* the namespace parse_args() returns: the options the brand loop reads or
\* overwrites; crawl() adds saved_since_break_end to the namespace it is given
Namespace(start_url, out_csv, max_pages, session_size) ==
    [brand |-> "", start_url |-> start_url, out_csv |-> out_csv,
     max_pages |-> max_pages, session_size |-> session_size,
     saved_since_break |-> Unset, saved_since_break_end |-> Unset]

CommandLines ==
    { Namespace("None", "perfumes.csv", 100, 30),
      Namespace("None", "mine.csv", 0, 5),
      Namespace("https://www.fragrantica.com/perfume/A/B-1.html", "mine.csv", 0, 5) }

\* per_brand_args: a deep copy of args with the four attributes overwritten
PerBrandArgs(ns, brand, saved) ==
    [ns EXCEPT !.brand = brand, !.start_url = "None", !.out_csv = "perfumes.csv",
                 !.saved_since_break = saved]

\* what crawl() leaves in the namespace it was given
Crawled(ns, end) ==
    IF end = Unset THEN ns ELSE [ns EXCEPT !.saved_since_break_end = end]

ArgsAfterCrawl_alias(ns, mutated) == mutated

\* args after crawl(per_brand_args): copy.deepcopy gave the crawl its own object
ArgsAfterCrawl(ns, mutated) == ns

InitMain ==
    /\ nu_in = << >>
    /\ nu_out = << >>
    /\ proxies = << >>
    /\ proxy_index = -1
    /\ proxy_failures = NoFailures
    /\ gnp_call = << >>
    /\ BackoffIdle
    /\ ToolsIdle
    /\ CrawlIdle
    /\ main_pc = "parse"
    /\ brands_arg \in SeqsUpTo(BrandArgValues, MaxBrandArgs)
    /\ brands_file \in SeqsUpTo(BrandFileLines, MaxFileLines)
    /\ brands = << >>
    /\ brand_i = 0
    /\ main_saved = 0
    /\ calls = << >>
    /\ main_args \in CommandLines

MainFrame ==
    UNCHANGED << nu_in, nu_out, proxyVars, crawlVars, backoffVars, toolVars,
                 brands_arg, brands_file >>

\* the brand list is built: --brands first, then the file, then deduped
MainBrands ==
    /\ main_pc = "parse"
    /\ brands' = dedupe_casefold_preserve_order(
                     brands_from_args(brands_arg) \o read_brands_file(brands_file))
    /\ main_pc' = IF brands' = << >> THEN "single"
                  ELSE IF main_args.brand # "" \/ main_args.start_url # "None"
                       THEN "exit" ELSE "loop"
    /\ main_saved' = 0
    /\ UNCHANGED << brand_i, calls, main_args >>
    /\ MainFrame

\* one iteration of the loop over brands: crawl(per_brand_args) returns after
\* setting saved_since_break_end, or returns early without setting it
MainCrawlBrand ==
    /\ main_pc = "loop"
    /\ brand_i < Len(brands)
    /\ \E end \in {Unset} \cup (0 .. MaxSaved) :
          LET per_brand_args == PerBrandArgs(main_args, brands[brand_i + 1], main_saved)
          IN  /\ calls' = Append(calls, [brand |-> brands[brand_i + 1],
                                         saved_since_break |-> main_saved,
                                         saved_since_break_end |-> end,
                                         received |-> per_brand_args])
              /\ main_args' = ArgsAfterCrawl(main_args, Crawled(per_brand_args, end))
              /\ main_saved' = CarryOver(end, main_saved)
    /\ brand_i' = brand_i + 1
    /\ UNCHANGED << main_pc, brands >>
    /\ MainFrame

\* the loop is over: return
MainReturn ==
    /\ main_pc = "loop"
    /\ brand_i = Len(brands)
    /\ main_pc' = "done"
    /\ UNCHANGED << brands, brand_i, main_saved, calls, main_args >>
    /\ MainFrame

\* no brand is left after filtering: crawl(args) with the arguments as given
MainCrawlArgs ==
    /\ main_pc = "single"
    /\ main_pc' = "done"
    /\ calls' = Append(calls, [brand |-> "", saved_since_break |-> 0,
                               saved_since_break_end |-> Unset,
                               received |-> main_args])
    /\ UNCHANGED << brands, brand_i, main_saved, main_args >>
    /\ MainFrame

NextMain ==
    \/ MainBrands
    \/ MainCrawlBrand
    \/ MainReturn
    \/ MainCrawlArgs

SpecMain == InitMain /\ [][NextMain]_vars

(***************************************************************************)
(* The bulk rewrites of a store file: enrich._write_csv,                   *)
(* clean_name_and_sex.process_csv and join_fragrances.main.  A file is the *)
(* sequence of its data rows (the header is written with the first row);   *)
(* a row is identified by a number, which is also its sort rank.           *)
(***************************************************************************)
MaxRows == 2
RowValues == {1, 2}

\* sorted(seen_urls.values(), key=...): one row per URL, in sort order
RECURSIVE SortedRows(_)
SortedRows(S) ==
    IF S = {} THEN << >>
    ELSE LET m == CHOOSE x \in S : \A y \in S : x <= y
         IN  << m >> \o SortedRows(S \ {m})

\* the tools that write to a temp file in the store's folder and move it over
TempFileTools == {"enrich", "clean"}

Rewrite(tool, orig, rows) ==
    [tool |-> tool, pc |-> "start", orig |-> orig, file |-> orig,
     tmp_exists |-> FALSE, tmp |-> << >>, rows |-> rows]

\* enrich and clean rewrite a non-empty file whose rows they changed in place;
\* join writes the master's rows merged with the brand files' rows
InitRewrite ==
    /\ nu_in = << >>
    /\ nu_out = << >>
    /\ proxies = << >>
    /\ proxy_index = -1
    /\ proxy_failures = NoFailures
    /\ gnp_call = << >>
    /\ MainIdle
    /\ BackoffIdle
    /\ CrawlIdle
    /\ cs_call = << >>
    /\ idn = << >>
    /\ rv_call = << >>
    /\ el_call = << >>
    /\ pu = << >>
    /\ en = << >>
    /\ \/ \E tool \in TempFileTools, orig \in SeqsUpTo(RowValues, MaxRows) \ {<< >>} :
            \E rows \in [DOMAIN orig -> RowValues] \ {orig} :
                rw = << Rewrite(tool, orig, rows) >>
       \/ \E orig \in SeqsUpTo(RowValues, MaxRows), brand_rows \in SUBSET RowValues :
            rw = << Rewrite("join", orig, SortedRows(Range(orig) \cup brand_rows)) >>

RewriteFrame ==
    UNCHANGED << nu_in, nu_out, proxyVars, crawlVars, mainVars, backoffVars, cs_call,
                 idn,
                 rv_call,
                 el_call,
                 pu,
                 en >>

\* tempfile.mkstemp(dir=<the store's folder>)
RewriteMkstemp ==
    /\ rw[1].tool \in TempFileTools
    /\ rw[1].pc = "start"
    /\ rw' = << [rw[1] EXCEPT !.pc = "writing", !.tmp_exists = TRUE, !.tmp = << >>] >>
    /\ RewriteFrame

\* writer.writerows: the next row reaches the temp file
RewriteWriteRow ==
    /\ rw[1].tool \in TempFileTools
    /\ rw[1].pc = "writing"
    /\ Len(rw[1].tmp) < Len(rw[1].rows)
    /\ rw' = << [rw[1] EXCEPT !.tmp = Append(@, rw[1].rows[Len(@) + 1])] >>
    /\ RewriteFrame

\* shutil.move(tmp_path, path) after the temp file is closed
RewriteMove ==
    /\ rw[1].tool \in TempFileTools
    /\ rw[1].pc = "writing"
    /\ Len(rw[1].tmp) = Len(rw[1].rows)
    /\ rw' = << [rw[1] EXCEPT !.pc = "done", !.file = rw[1].tmp,
                              !.tmp_exists = FALSE, !.tmp = << >>] >>
    /\ RewriteFrame

\* an exception while writing or moving: os.unlink(tmp_path), then raise
RewriteCleanup ==
    /\ rw[1].tool \in TempFileTools
    /\ rw[1].pc = "writing"
    /\ rw' = << [rw[1] EXCEPT !.pc = "failed", !.tmp_exists = FALSE, !.tmp = << >>] >>
    /\ RewriteFrame

\* join: open(MASTER_CSV, "w") truncates the master
JoinOpen ==
    /\ rw[1].tool = "join"
    /\ rw[1].pc = "start"
    /\ rw' = << [rw[1] EXCEPT !.pc = "writing", !.file = << >>] >>
    /\ RewriteFrame

\* join: writer.writerows: the next row reaches the master
JoinWriteRow ==
    /\ rw[1].tool = "join"
    /\ rw[1].pc = "writing"
    /\ Len(rw[1].file) < Len(rw[1].rows)
    /\ rw' = << [rw[1] EXCEPT !.file = Append(@, rw[1].rows[Len(@) + 1])] >>
    /\ RewriteFrame

\* join: every row is written and the master is closed
JoinClose ==
    /\ rw[1].tool = "join"
    /\ rw[1].pc = "writing"
    /\ Len(rw[1].file) = Len(rw[1].rows)
    /\ rw' = << [rw[1] EXCEPT !.pc = "done"] >>
    /\ RewriteFrame

\* join: an exception while writing leaves main(); nothing handles it
JoinRaise ==
    /\ rw[1].tool = "join"
    /\ rw[1].pc = "writing"
    /\ rw' = << [rw[1] EXCEPT !.pc = "failed"] >>
    /\ RewriteFrame

NextRewrite ==
    \/ RewriteMkstemp
    \/ RewriteWriteRow
    \/ RewriteMove
    \/ RewriteCleanup
    \/ JoinOpen
    \/ JoinWriteRow
    \/ JoinClose
    \/ JoinRaise

SpecRewrite == InitRewrite /\ [][NextRewrite]_vars

(***************************************************************************)
(* parse_category_and_sex.  A text is a sequence of sentences, each ending *)
(* in a full stop; a sentence either has the shape "is a/an <category>     *)
(* fragrance for <audience>." (CATEGORY_SEX_RE matches it, and no match    *)
(* crosses a full stop), or the shape "is a fragrance for <audience>."     *)
(* (only SEX_ONLY_RE matches it).  len is len(clean_space(category)).      *)
(***************************************************************************)
MaxItems == 2
MaxElements == 2
MaxCategoryLen == 80

FullSentence == [kind |-> "full", category |-> "Woody Chypre", len |-> 12, sex |-> "men"]
LongSentence == [kind |-> "full", category |-> "long", len |-> 90, sex |-> "women"]
SexSentence  == [kind |-> "sex", category |-> "", len |-> 0, sex |-> "women and men"]
Sentences == {FullSentence, LongSentence, SexSentence}

\* the content attribute of a meta tag; an absent tag and an empty content
\* are skipped alike
MetaContents == SeqsUpTo(Sentences, MaxItems)
\* the text of a p, div or span element
ElementTexts ==
    { << SexSentence >>, << FullSentence >>, << LongSentence >>,
      << LongSentence, FullSentence >> }

Documents ==
    [meta : MetaContents, og : MetaContents,
     elements : SeqsUpTo(ElementTexts, MaxElements)]

NoneNone == [category |-> "", sex |-> ""]

\* CATEGORY_SEX_RE.findall(text): the matches, left to right
CategorySexFindall(text) == SelectSeq(text, LAMBDA it : it.kind = "full")

\* SEX_ONLY_RE.search(text): the audience of the first match, "" for no match
SexOnlySearch(text) ==
    LET ms == SelectSeq(text, LAMBDA it : it.kind = "sex")
    IN  IF ms = << >> THEN "" ELSE ms[1].sex

\* the body of the loops of tiers 1 and 2 over the texts from position i on:
\* CATEGORY_SEX_RE.search gives the first match only; it is returned when its
\* category is short enough, otherwise the text's first audience-only match
\* becomes the fallback if there is none yet
RECURSIVE ScanTexts(_, _, _)
ScanTexts(texts, i, sex_fallback) ==
    IF i > Len(texts) THEN [found |-> FALSE, sex_fallback |-> sex_fallback]
    ELSE IF texts[i] = << >> THEN ScanTexts(texts, i + 1, sex_fallback)
    ELSE LET ms == CategorySexFindall(texts[i])
         IN  IF ms # << >> /\ ms[1].len <= MaxCategoryLen
             THEN [found |-> TRUE,
                   result |-> [category |-> ms[1].category, sex |-> ms[1].sex]]
             ELSE ScanTexts(texts, i + 1,
                            IF sex_fallback = "" THEN SexOnlySearch(texts[i])
                            ELSE sex_fallback)

\* soup.get_text(" ", strip=True): the elements' texts; meta tags have none
RECURSIVE PageText(_)
PageText(elements) ==
    IF elements = << >> THEN << >> ELSE Head(elements) \o PageText(Tail(elements))

parse_category_and_sex(doc) ==
    LET tier1 == ScanTexts(<< doc.meta, doc.og >>, 1, "")
    IN  IF tier1.found THEN tier1.result
        ELSE LET tier2 == ScanTexts(doc.elements, 1, tier1.sex_fallback)
             IN  IF tier2.found THEN tier2.result
                 ELSE LET page_text == PageText(doc.elements)
                          ok == SelectSeq(CategorySexFindall(page_text),
                                          LAMBDA it : it.len <= MaxCategoryLen)
                          sex_fallback == IF tier2.sex_fallback = ""
                                          THEN SexOnlySearch(page_text)
                                          ELSE tier2.sex_fallback
                      IN  IF ok # << >>
                          THEN [category |-> ok[1].category, sex |-> ok[1].sex]
                          ELSE IF sex_fallback # ""
                               THEN [category |-> "", sex |-> sex_fallback]
                               ELSE NoneNone

InitParse ==
    /\ nu_in = << >>
    /\ nu_out = << >>
    /\ proxies = << >>
    /\ proxy_index = -1
    /\ proxy_failures = NoFailures
    /\ gnp_call = << >>
    /\ MainIdle
    /\ BackoffIdle
    /\ CrawlIdle
    /\ rw = << >>
    /\ idn = << >>
    /\ rv_call = << >>
    /\ el_call = << >>
    /\ pu = << >>
    /\ en = << >>
    /\ \E doc \in Documents : cs_call = << [doc |-> doc, returned |-> << >>] >>

ParseFrame ==
    UNCHANGED << nu_in, nu_out, proxyVars, crawlVars, mainVars, backoffVars, rw,
                 idn,
                 rv_call,
                 el_call,
                 pu,
                 en >>

\* parse_category_and_sex applied to the document
ApplyParse ==
    /\ cs_call[1].returned = << >>
    /\ cs_call' = << [cs_call[1] EXCEPT
                         !.returned = << parse_category_and_sex(cs_call[1].doc) >>] >>
    /\ ParseFrame

NextParse == ApplyParse

SpecParse == InitParse /\ [][NextParse]_vars

(***************************************************************************)
(* The identities of a run: every place of crawl(), _scrape_brand_simple() *)
(* and enrich() that builds a session, and the User-Agent header the       *)
(* session carries.                                                        *)
(***************************************************************************)
Placeholder == "Mozilla/5.0 (compatible; PerfumeBot/1.0; +https://example.com/botinfo)"
DEFAULT_UAS == {"Chrome/131 Windows", "Chrome/131 Macintosh", "Firefox/133 Windows"}
CURL_CFFI_UA == "Chrome/131 Windows"
UserAgentArgs == {Placeholder, "PinnedBot/1.0", "PinnedBot/2.0"}
IdentityModes == {"crawl", "brand", "enrich"}

\* random.choice(DEFAULT_UAS) if args.user_agent is the placeholder, else
\* args.user_agent: the values the expression can take
ChooseUa(user_agent) ==
    IF user_agent = Placeholder THEN DEFAULT_UAS ELSE {user_agent}

\* build_session(user_agent, ...): the User-Agent headers the session can
\* have; with curl_cffi installed the header is CURL_CFFI_UA whatever was asked
build_session(user_agent, has_curl_cffi) ==
    IF has_curl_cffi THEN {CURL_CFFI_UA} ELSE ChooseUa(user_agent)

\* a run: its mode, args.user_agent, whether curl_cffi is importable, the
\* local variable ua (crawl() starts with args.user_agent), the header of the
\* current session and the place that built it
InitIdentity ==
    /\ nu_in = << >>
    /\ nu_out = << >>
    /\ proxies = << >>
    /\ proxy_index = -1
    /\ proxy_failures = NoFailures
    /\ gnp_call = << >>
    /\ MainIdle
    /\ BackoffIdle
    /\ CrawlIdle
    /\ rw = << >>
    /\ cs_call = << >>
    /\ rv_call = << >>
    /\ el_call = << >>
    /\ pu = << >>
    /\ en = << >>
    /\ \E mode \in IdentityModes, user_agent \in UserAgentArgs, curl \in BOOLEAN :
          idn = << [mode |-> mode, user_agent |-> user_agent, has_curl_cffi |-> curl,
                    ua |-> IF mode = "crawl" THEN user_agent ELSE "unset",
                    session_ua |-> "none", made |-> "none"] >>

IdentityFrame ==
    UNCHANGED << nu_in, nu_out, proxyVars, crawlVars, mainVars, backoffVars, rw,
                 cs_call,
                 rv_call,
                 el_call,
                 pu,
                 en >>

\* the places an identity is made at, in the order a run can reach them: the
\* first one, then the loop's, then (brand mode) the retry pass's
Reachable(from, to) ==
    IF from = "none" THEN to = "initial"
    ELSE IF from = "retry" THEN to = "retry"
    ELSE to # "initial"

NewIdentity(ua, made) ==
    /\ Reachable(idn[1].made, made)
    /\ \E header \in build_session(ua, idn[1].has_curl_cffi) :
          idn' = << [idn[1] EXCEPT !.ua = ua, !.session_ua = header, !.made = made] >>
    /\ IdentityFrame

\* crawl(): rotate_identity() at the start, after rotate_every requests, on a
\* failure and after a cooldown
CrawlRotateIdentity ==
    /\ idn[1].mode = "crawl"
    /\ \E made \in {"initial", "volume", "failure", "cooldown"},
          ua \in ChooseUa(idn[1].user_agent) :
          NewIdentity(ua, made)

\* _scrape_brand_simple(): the first session, the volume rotation, the rotation
\* on 429/403 or ProxyError, and the session of each retry-pass request
BrandChooseIdentity ==
    /\ idn[1].mode = "brand"
    /\ \E made \in {"initial", "volume", "failure", "retry"},
          ua \in ChooseUa(idn[1].user_agent) :
          NewIdentity(ua, made)

\* _scrape_brand_simple() and enrich(): on Timeout/ConnectionError the session
\* is rebuilt with the current ua
RebuildSession ==
    /\ idn[1].mode \in {"brand", "enrich"}
    /\ idn[1].made # "none"
    /\ NewIdentity(idn[1].ua, "failure")

\* _scrape_brand_simple() after the cooldown: ua = random.choice(DEFAULT_UAS)
BrandCooldownIdentity ==
    /\ idn[1].mode = "brand"
    /\ \E ua \in DEFAULT_UAS : NewIdentity(ua, "cooldown")

\* enrich(): the first session, the volume rotation, the rotation on 429/403
\* or ProxyError, and the rotation after the cooldown
EnrichChooseIdentity ==
    /\ idn[1].mode = "enrich"
    /\ \E made \in {"initial", "volume", "failure", "cooldown"},
          ua \in ChooseUa(idn[1].user_agent) :
          NewIdentity(ua, made)

NextIdentity ==
    \/ CrawlRotateIdentity
    \/ BrandChooseIdentity
    \/ RebuildSession
    \/ BrandCooldownIdentity
    \/ EnrichChooseIdentity

SpecIdentity == InitIdentity /\ [][NextIdentity]_vars

(***************************************************************************)
(* parse_rating_votes_from_text.  A page text either has no sentence       *)
(* RATING_VOTES_RE matches, or its first match has a rating token          *)
(* <whole>[.<digit>] and a votes token of digits and commas.  A rating is  *)
(* kept in tenths.                                                         *)
(***************************************************************************)
MaxWhole == 6
MaxVoteChars == 3
Fractions == { << >>, << 0 >>, << 2 >>, << 7 >> }
VoteChars == {"0", "1", ","}
VoteTokens == SeqsUpTo(VoteChars, MaxVoteChars) \ {<< >>}

PageTexts ==
    { [sentence |-> FALSE, whole |-> 0, frac |-> << >>, votes |-> << "0" >>] } \cup
    [sentence : {TRUE}, whole : 0 .. MaxWhole, frac : Fractions, votes : VoteTokens]

\* float(m.group(1)), in tenths
Float(whole, frac) == whole * 10 + (IF frac = << >> THEN 0 ELSE frac[1])

\* m.group(2).replace(",", "")
RemoveCommas(token) == SelectSeq(token, LAMBDA c : c # ",")

\* int(digits) for a non-empty string of digits
RECURSIVE ToInt(_)
ToInt(digits) ==
    IF digits = << >> THEN 0
    ELSE ToInt(SubSeq(digits, 1, Len(digits) - 1)) * 10
           + (IF digits[Len(digits)] = "1" THEN 1 ELSE 0)

\* (None, None) without a match; int('') raises ValueError
parse_rating_votes_from_text(text) ==
    IF ~text.sentence
    THEN [raised |-> FALSE, rating |-> << >>, votes |-> << >>]
    ELSE IF RemoveCommas(text.votes) = << >>
         THEN [raised |-> TRUE, rating |-> << >>, votes |-> << >>]
         ELSE [raised |-> FALSE, rating |-> << Float(text.whole, text.frac) >>,
               votes |-> << ToInt(RemoveCommas(text.votes)) >>]

\* the test crawl() makes before it appends a row for a page with a brand and
\* a name: rating and votes are not None
Persisted(data) == ~data.raised /\ data.rating # << >> /\ data.votes # << >>

InitRating ==
    /\ nu_in = << >>
    /\ nu_out = << >>
    /\ proxies = << >>
    /\ proxy_index = -1
    /\ proxy_failures = NoFailures
    /\ gnp_call = << >>
    /\ MainIdle
    /\ BackoffIdle
    /\ CrawlIdle
    /\ rw = << >>
    /\ cs_call = << >>
    /\ idn = << >>
    /\ el_call = << >>
    /\ pu = << >>
    /\ en = << >>
    /\ \E text \in PageTexts : rv_call = << [text |-> text, returned |-> << >>] >>

RatingFrame ==
    UNCHANGED << nu_in, nu_out, proxyVars, crawlVars, mainVars, backoffVars, rw,
                 cs_call, idn,
                 el_call,
                 pu,
                 en >>

\* parse_rating_votes_from_text applied to the page text
ApplyRating ==
    /\ rv_call[1].returned = << >>
    /\ rv_call' = << [rv_call[1] EXCEPT
                         !.returned = << parse_rating_votes_from_text(rv_call[1].text) >>] >>
    /\ RatingFrame

NextRating == ApplyRating

SpecRating == InitRating /\ [][NextRating]_vars

(***************************************************************************)
(* extract_links on one fetched page, with the limit crawl() computes for  *)
(* the page's URL and with small limits of its own.                        *)
(***************************************************************************)
MaxAnchors == 3
MaxLimit == 2

\* the URL crawl() holds for the fetched page: a designers page under either
\* scheme, or a detail page
PageUrls == { H1, [H1 EXCEPT !.scheme = "http"], P1 }

Hrefs ==
    { Rel(P1.path, ""), Rel(P2.path, ""), Rel(P3.path, "reviews"),
      Rel(H1.path, ""), Abs(<< "example", "org" >>, P1.path, "") }

\* link_limit = 20 if url.startswith("https://www.fragrantica.com/designers/")
\* else 0
link_limit(u) == IF IsDesignerPage(u) THEN LinkLimit ELSE 0

InitLinks ==
    /\ nu_in = << >>
    /\ nu_out = << >>
    /\ proxies = << >>
    /\ proxy_index = -1
    /\ proxy_failures = NoFailures
    /\ gnp_call = << >>
    /\ MainIdle
    /\ BackoffIdle
    /\ CrawlIdle
    /\ rw = << >>
    /\ cs_call = << >>
    /\ idn = << >>
    /\ rv_call = << >>
    /\ pu = << >>
    /\ en = << >>
    /\ \E u \in PageUrls, anchors \in SeqsUpTo(Hrefs, MaxAnchors) :
          \E limit \in (0 .. MaxLimit) \cup {link_limit(u)} :
             el_call = << [url |-> u, anchors |-> anchors, limit |-> limit,
                           link_limit |-> link_limit(u), returned |-> << >>] >>

LinksFrame ==
    UNCHANGED << nu_in, nu_out, proxyVars, crawlVars, mainVars, backoffVars, rw,
                 cs_call, idn, rv_call,
                 pu,
                 en >>

\* extract_links(url, soup, limit_perfume_links=limit) returns
ApplyExtractLinks ==
    /\ el_call[1].returned = << >>
    /\ \E links \in extract_links(el_call[1].url, el_call[1].anchors, el_call[1].limit) :
          el_call' = << [el_call[1] EXCEPT !.returned = << links >>] >>
    /\ LinksFrame

NextLinks == ApplyExtractLinks

SpecLinks == InitLinks /\ [][NextLinks]_vars

(***************************************************************************)
(* The proxy each GET goes through: the failure handling of the retry      *)
(* loops of crawl() and _scrape_brand_simple() with a pool of two proxies. *)
(* Every step is one GET through pu[1].current_proxy and what the loop     *)
(* does with its outcome; the counters stop at MaxFailCount.               *)
(***************************************************************************)
ProxyUse(mode, k, cp) == [mode |-> mode, attempt |-> k, current_proxy |-> cp]

\* after the first identity: get_next_proxy() on the fresh pool
InitProxyUse ==
    /\ nu_in = << >>
    /\ nu_out = << >>
    /\ MainIdle
    /\ BackoffIdle
    /\ CrawlIdle
    /\ rw = << >>
    /\ cs_call = << >>
    /\ idn = << >>
    /\ rv_call = << >>
    /\ el_call = << >>
    /\ gnp_call = << >>
    /\ proxies \in { << "pA", "pB" >>, << "pA" >> }
    /\ proxy_index = 0
    /\ proxy_failures = NoFailures
    /\ en = << >>
    /\ \E mode \in {"crawl", "brand"} : pu = << ProxyUse(mode, 1, proxies[1]) >>

ProxyUseFrame ==
    UNCHANGED << nu_in, nu_out, crawlVars, mainVars, backoffVars, rw, cs_call, idn,
                 rv_call, el_call, proxies, gnp_call,
                 en >>

\* the failure is recorded and, with attempts left, the identity is rotated;
\* on the last attempt the loop is left with the proxy it has
FailureRecorded(rotate) ==
    LET fails == RecordFailure(proxy_failures, pu[1].current_proxy)
        r     == get_next_proxy(proxies, proxy_index, fails)
    IN  /\ proxy_failures[pu[1].current_proxy] < MaxFailCount
        /\ IF rotate /\ pu[1].attempt < MAX_RETRIES
           THEN /\ proxy_index' = r.index
                /\ proxy_failures' = r.failures
                /\ pu' = << ProxyUse(pu[1].mode, pu[1].attempt + 1, r.proxy) >>
           ELSE /\ proxy_index' = proxy_index
                /\ proxy_failures' = fails
                /\ pu' = << ProxyUse(pu[1].mode,
                                     IF pu[1].attempt < MAX_RETRIES
                                     THEN pu[1].attempt + 1 ELSE 1,
                                     pu[1].current_proxy) >>

\* ProxyError, Timeout or ConnectionError in either loop
UseTransportError ==
    /\ FailureRecorded(TRUE)
    /\ ProxyUseFrame

\* 429 or 403: crawl() records the failure while attempts are left, as does
\* brand mode; on the last attempt both give up without recording
UseRateLimited ==
    /\ IF pu[1].attempt < MAX_RETRIES
       THEN FailureRecorded(TRUE)
       ELSE /\ pu' = << ProxyUse(pu[1].mode, 1, pu[1].current_proxy) >>
            /\ UNCHANGED << proxy_index, proxy_failures >>
    /\ ProxyUseFrame

\* 200: the counter of the proxy goes down by one; the next URL follows,
\* after a rotation by volume or a cooldown rotation or without one
UseSuccess ==
    /\ LET fails == RecordSuccess(proxy_failures, pu[1].current_proxy)
           r     == get_next_proxy(proxies, proxy_index, fails)
       IN  \E rotate \in BOOLEAN :
              IF rotate
              THEN /\ proxy_index' = r.index
                   /\ proxy_failures' = r.failures
                   /\ pu' = << ProxyUse(pu[1].mode, 1, r.proxy) >>
              ELSE /\ proxy_index' = proxy_index
                   /\ proxy_failures' = fails
                   /\ pu' = << ProxyUse(pu[1].mode, 1, pu[1].current_proxy) >>
    /\ ProxyUseFrame

NextProxyUse ==
    \/ UseTransportError
    \/ UseRateLimited
    \/ UseSuccess

SpecProxyUse == InitProxyUse /\ [][NextProxyUse]_vars

(***************************************************************************)
(* Claims.                                                                 *)
(***************************************************************************)
\* C5: get_next_proxy never returns a proxy with 3 or more failures while
\* some configured proxy has fewer than 3, whatever the proxy list (single,
\* repeated entries), the failure counts and the round-robin index.
C5_HealthyProxyPreferred ==
    gnp_call # << >> =>
        LET c == gnp_call[1]
        IN  (\E p \in Range(proxies) : c.pre_failures[p] < 3)
                => (c.proxy \in Range(proxies) /\ c.pre_failures[c.proxy] < 3)

\* C5 witness: a call that had to step over a blacklisted candidate in a list
\* with a repeated entry and returned a healthy one.
C5_Witness ==
    /\ gnp_call # << >>
    /\ Len(proxies) = 3
    /\ gnp_call[1].examined >= 2
    /\ ~gnp_call[1].reset
    /\ \E p \in Range(proxies) : gnp_call[1].pre_failures[p] >= 3

\* C6: when every configured proxy has 3 or more failures, the next call of
\* get_next_proxy examines at most 2 x len(proxies) candidates, clears all
\* failure counters and returns a member of the list, with the round-robin
\* index inside the list.
C6_ExhaustionRecovers ==
    (/\ gnp_call # << >>
     /\ Len(proxies) > 0
     /\ \A p \in Range(proxies) : gnp_call[1].pre_failures[p] >= 3)
    => (/\ gnp_call[1].examined <= 2 * Len(proxies)
        /\ gnp_call[1].reset
        /\ \A p \in ProxyNames : proxy_failures[p] = 0
        /\ gnp_call[1].proxy \in Range(proxies)
        /\ proxy_index \in 0 .. (Len(proxies) - 1))

\* C6 witness: a call on a pool of two different proxies, both blacklisted,
\* that returned after the reset.
C6_Witness ==
    /\ gnp_call # << >>
    /\ Range(proxies) = ProxyNames
    /\ \A p \in ProxyNames : gnp_call[1].pre_failures[p] >= 3
    /\ gnp_call[1].reset

\* two URLs that differ at most in the fragment and in the letter case of the
\* host
SameUpToFragmentAndHostCase(a, b) ==
    /\ a.scheme = b.scheme
    /\ a.path = b.path
    /\ LowerHost(a.host) = LowerHost(b.host)

\* C7 (as claimed): normalize_url maps any two URLs that differ only in the
\* fragment and/or the letter case of the host to one canonical string.
C7_OneCanonicalForm ==
    (nu_out # << >> /\ SameUpToFragmentAndHostCase(nu_in[1], nu_in[2]))
        => nu_out[1] = nu_out[2]

\* the URLs the CSV held when the run started
StartKnown == {csv_rows[i].url : i \in 1 .. csv_start}

\* C1 (as claimed): the store never holds two rows with the same url, in
\* frontier mode and in brand mode (retry pass included), whatever the
\* redirects.
C1_OneRowPerUrl ==
    \A i, j \in DOMAIN csv_rows : i # j => csv_rows[i].url # csv_rows[j].url

C4_EnqueuedAtMostOnce ==
    /\ \A u \in DOMAIN enq : enq[u] <= 1
    /\ Range(queue) \subseteq seen

\* the owner slug a detail URL carries: /perfume/<slug>/<name>-<id>.html
OwnerSlug(u) == u.path[2]

\* C8: with a brand scope, no detail URL whose owner slug differs
\* (case-insensitively) from the brand's slug is in the work list or the
\* frontier, or is fetched (in the loop or in the retry pass).
C8_ScopeFilter ==
    args.brand # "" =>
        /\ queue = << >>
        /\ \A u \in Range(perfume_urls) \cup Range(failed_urls) \cup ({url} \ {NoneUrl}) :
              Lower(OwnerSlug(u)) = Lower(args.brand)
        /\ (watch \notin Range(perfume_urls)) => gets = 0

\* C8 witness: the brand's designers page was fetched, it links to a detail
\* page of another owner, and the work list was built from it.
C8_Witness ==
    /\ args.brand = "Chanel"
    /\ ev = << [op |-> "brand_setup", hub_fetched |-> TRUE] >>
    /\ perfume_urls # << >>
    /\ \E i \in DOMAIN Anchors(H1) :
          /\ PERFUME_URL_RE(BrandAbsolute(Anchors(H1)[i]))
          /\ Lower(OwnerSlug(Anchors(H1)[i])) = "dior"

\* C9 (as claimed): no GET is issued for a URL the robots policy disallows, on
\* every fetch path (frontier mode and brand mode).
C9_DisallowedNeverFetched == watch \in site_disallow => gets = 0

\* the last step was a successful fetch of a detail page
Fetched == ev # << >> /\ ev[1].op = "fetched" /\ ev[1].detail

\* C10: a row is appended only by a successful fetch of a detail page whose
\* extraction yields brand, name, rating and votes; without rating or votes
\* nothing is appended and the URL does not enter the known-URL set; with all
\* four and a URL not yet known exactly one row is appended and the URL is
\* added to the known-URL set.
C10_SaveRule ==
    [][ /\ (csv_rows' # csv_rows =>
              /\ Fetched'
              /\ ev'[1].data.brand # "None" /\ ev'[1].data.name # "None"
              /\ ev'[1].data.rating # "None" /\ ev'[1].data.votes # "None"
              /\ csv_rows' = Append(csv_rows, Row(ev'[1].url, ev'[1].data)))
        /\ ((Fetched' /\ ev' # ev
                /\ (ev'[1].data.rating = "None" \/ ev'[1].data.votes = "None")) =>
              /\ csv_rows' = csv_rows
              /\ existing_urls' = existing_urls)
        /\ ((Fetched' /\ ev' # ev /\ ~ev'[1].known
                /\ ev'[1].data.brand # "None" /\ ev'[1].data.name # "None"
                /\ ev'[1].data.rating # "None" /\ ev'[1].data.votes # "None") =>
              /\ csv_rows' = Append(csv_rows, Row(ev'[1].url, ev'[1].data))
              /\ existing_urls' = existing_urls \cup {ev'[1].url}) ]_vars

\* C10 witness: a successful fetch of a detail page that was not known and
\* yielded all four fields; its row is the last one of the CSV.
C10_Witness ==
    /\ Fetched
    /\ ~ev[1].known
    /\ ev[1].data.rating # "None"
    /\ csv_rows # << >>
    /\ csv_rows[Len(csv_rows)].url = ev[1].url
    /\ Len(csv_rows) > csv_start

\* C11 (as claimed): whenever a record is persisted, its url field is the
\* final resolved URL of the fetch and that URL is in the known-URL set, in
\* crawl(), the brand-mode loop and the brand-mode retry pass.
C11_FinalUrlStored ==
    (Fetched /\ ev[1].saved) =>
        /\ csv_rows[Len(csv_rows)].url = ev[1].final
        /\ ev[1].final \in existing_urls

C13_CooldownJittered ==
    (Fetched /\ ev[1].cooldown) =>
        ev[1].sleep = session_sleep(session_break_seconds, 15)

\* the events of the steps that issue a GET
GetOps ==
    {"retry_transport", "retry_exception", "retry_ratelimit", "retry_server",
     "gave_up", "skipped", "brand_failed", "fetched", "retry_pass_failed"}

\* C15 (as claimed): every GET, successful or failed, increments
\* requests_since_rotate (a rotation in the same step resets it to 0).
C15_EveryGetCounted ==
    [][ (ev' # ev /\ ev' # << >> /\ ev'[1].op \in GetOps) =>
          IF ev'[1].op \in {"retry_transport", "retry_ratelimit"} /\ ev'[1].rotated
          THEN requests_since_rotate' = 0
          ELSE requests_since_rotate' = requests_since_rotate + 1 ]_vars

\* C16 (as claimed): in crawl(), a delay is slept between the last GET of one
\* URL and the first GET of the next, whatever the outcome of the former.
C16_DelayBeforeNextUrl ==
    [][ (/\ ev # << >>
         /\ ev' # << >>
         /\ args.brand = ""
         /\ ev[1].op \in {"gave_up", "skipped", "fetched"}
         /\ ev'[1].op = "pop") =>
          ev[1].slept # NoSleep ]_vars

\* the extraction yielded brand, name, rating and votes
AllFour(data) ==
    /\ data.brand # "None" /\ data.name # "None"
    /\ data.rating # "None" /\ data.votes # "None"

\* C18 (as claimed): with a proxy pool, a 429 on attempt 1 followed by a 200
\* gives exactly one rotation in between, success on attempt 2, and a record
\* whenever the page yields brand, name, rating and votes.
C18_RateLimitedThenRecovered ==
    [][ (/\ ev # << >> /\ ev' # << >>
         /\ proxies # << >>
         /\ ev[1].op = "retry_ratelimit" /\ ev[1].attempt = 1
         /\ ev'[1].op = "fetched") =>
          /\ ev[1].rotated
          /\ attempt = 2
          /\ ev'[1].recovered
          /\ (ev'[1].detail /\ AllFour(ev'[1].data)) =>
                csv_rows' = Append(csv_rows, Row(ev'[1].url, ev'[1].data)) ]_vars

\* C18 (amended): the same, but crawl() persists the record only when the
\* final URL is not already known.
C18_RecoveredAndSavedIfNew ==
    [][ (/\ ev # << >> /\ ev' # << >>
         /\ proxies # << >>
         /\ ev[1].op = "retry_ratelimit" /\ ev[1].attempt = 1
         /\ ev'[1].op = "fetched") =>
          /\ ev[1].rotated
          /\ attempt = 2
          /\ ev'[1].recovered
          /\ (ev'[1].detail /\ AllFour(ev'[1].data)
                  /\ (args.brand = "" => ~ev'[1].known)) =>
                csv_rows' = Append(csv_rows, Row(ev'[1].url, ev'[1].data))
          /\ (args.brand = "" /\ ev'[1].known) => csv_rows' = csv_rows ]_vars

\* C18 witness: a detail page fetched on attempt 2 after a 429, through a
\* proxy, and saved.
C18_Witness ==
    /\ Fetched
    /\ proxies # << >>
    /\ ev[1].recovered
    /\ ev[1].saved

\* C19: with max_pages = N > 0 a run processes at most N detail pages and
\* appends at most N rows (the brand work list has at most N entries), and no
\* link is enqueued by or after the step that reaches the budget.
C19_PageBudget ==
    /\ [](args.max_pages > 0 =>
            /\ pages_processed <= args.max_pages
            /\ Len(csv_rows) - csv_start <= args.max_pages
            /\ Len(perfume_urls) <= args.max_pages)
    /\ [][ (args.max_pages > 0 /\ pages_processed' >= args.max_pages) =>
              (enq' = enq /\ Len(queue') <= Len(queue)) ]_vars

\* C19 witness: the frontier loop ended on the budget with work left in the
\* queue.
C19_Witness ==
    /\ args.max_pages = 1
    /\ pages_processed = 1
    /\ pc = "done"
    /\ queue # << >>

\* C19, no limit: with max_pages = 0 more detail pages are processed than the
\* largest budget of the model.
C19_NoLimitWitness ==
    /\ args.max_pages = 0
    /\ pages_processed > MaxArg

\* C14: in multi-brand mode the first crawl invocation receives
\* saved_since_break = 0 and every later one receives the value the previous
\* invocation left in saved_since_break_end, or the value the previous
\* invocation itself received when it left none.
C14_CounterCarried ==
    (calls # << >> /\ calls[1].brand # "") =>
        /\ calls[1].saved_since_break = 0
        /\ \A i \in 2 .. Len(calls) :
              calls[i].saved_since_break =
                  IF calls[i - 1].saved_since_break_end # Unset
                  THEN calls[i - 1].saved_since_break_end
                  ELSE calls[i - 1].saved_since_break

\* C14 witness: three brands; the first run left a positive counter, the
\* second returned early and left none, the third received the first's.
C14_Witness ==
    /\ Len(calls) = 3
    /\ calls[1].saved_since_break_end > 0
    /\ calls[2].saved_since_break_end = Unset
    /\ calls[3].saved_since_break = calls[1].saved_since_break_end

\* C17 (as claimed): within one retry sequence of a fixed failure class no
\* sleep is shorter than the one before it.
C17_SleepsNonDecreasing ==
    \A i \in 1 .. (Len(bo_sleeps) - 1) : bo_sleeps[i] <= bo_sleeps[i + 1]

\* the --brands values and the file lines in the order main() reads them, each
\* with its text and whether it names a brand
BrandInputs ==
    [i \in 1 .. (Len(brands_arg) + Len(brands_file)) |->
        IF i <= Len(brands_arg)
        THEN [text |-> brands_arg[i].body, named |-> brands_arg[i].body # ""]
        ELSE LET line == brands_file[i - Len(brands_arg)]
             IN  [text |-> line.body,
                  named |-> line.body # "" /\ ~startswith_hash(line.body)]]

\* input i names a brand that no earlier input names, up to case
FirstOccurrence(i) ==
    /\ BrandInputs[i].named
    /\ \A k \in 1 .. (i - 1) :
          BrandInputs[k].named =>
              casefold(BrandInputs[k].text) # casefold(BrandInputs[i].text)

\* the distinct brands in order of first occurrence
DistinctBrands ==
    LET firsts == SelectSeq([i \in 1 .. Len(BrandInputs) |-> i], FirstOccurrence)
    IN  [k \in 1 .. Len(firsts) |-> BrandInputs[firsts[k]].text]

\* C20: in multi-brand mode main() invokes crawl once per distinct brand, in
\* order of first occurrence (--brands before the file); blank lines and
\* comment lines of the file are ignored, an inline # stays part of the brand,
\* names equal under case-folding collapse to the first.
C20_OneCrawlPerDistinctBrand ==
    (main_pc \in {"loop", "done"} /\ DistinctBrands # << >>) =>
        /\ Len(calls) <= Len(DistinctBrands)
        /\ \A i \in 1 .. Len(calls) : calls[i].brand = DistinctBrands[i]
        /\ main_pc = "done" => Len(calls) = Len(DistinctBrands)

\* C20 witness: main() has returned; the file held a comment line and a name
\* that --brands had given in another case, and one crawl was made.
C20_Witness ==
    /\ main_pc = "done"
    /\ brands_arg = << [padded |-> FALSE, body |-> "Chanel"] >>
    /\ \E i, k \in 1 .. Len(brands_file) :
          /\ brands_file[i].body = "chanel"
          /\ brands_file[k].body = "#note"
    /\ Len(calls) = 1
    /\ calls[1].brand = "Chanel"

\* C20 witness: an inline # is kept and the file's brands follow --brands.
C20_InlineHashWitness ==
    /\ main_pc = "done"
    /\ Len(calls) = 3
    /\ calls[1].brand = "Chanel"
    /\ calls[3].brand = "Dior #1"

\* C22 (as claimed): when crawl() exits for want of a seed, no HTTP request,
\* the robots.txt request included, has been issued.
C22_NoRequestBeforeExit ==
    pc = "exit" => (ev # << >> /\ ev[1].requests = << >>)

\* C25 (as claimed): a URL that the CSV held when the run started (the row a
\* crashed run left behind included) never gets a second row.
C25_StoredUrlNotAppendedAgain ==
    \A j \in (csv_start + 1) .. Len(csv_rows) : csv_rows[j].url \notin StartKnown

\* the step answers the GET with status 429 or 403 and a retry follows
RateLimitRetry == ev # << >> /\ ev[1].op = "retry_ratelimit"

\* C26 (as claimed): on a 429 or 403 with attempts remaining the engine rotates
\* and sleeps 5 * 2^(attempt-1) s with a proxy pool, and sleeps
\* 30 * 2^(attempt-1) s without rotating when there is none, in crawl() and in
\* _scrape_brand_simple().
C26_RateLimitBackoff ==
    RateLimitRetry =>
        IF proxies # << >>
        THEN ev[1].rotated /\ ev[1].slept.lo = 5 * (2 ^ (ev[1].attempt - 1))
        ELSE ~ev[1].rotated /\ ev[1].slept.lo = 30 * (2 ^ (ev[1].attempt - 1))

\* the counts after a failure was recorded against proxy cp and, when the
\* rotation that follows found every proxy exhausted, after the reset
AfterFailure(fails, cp) ==
    { [fails EXCEPT ![cp] = @ + 1], NoFailures }

\* C27 (as claimed): every 429 or 403 received through a proxy adds one to that
\* proxy's failure count, the answer to the last attempt included.
C27_RateLimitCountsAgainstProxy ==
    [][ (/\ ev' # ev /\ ev' # << >>
         /\ current_proxy # "None"
         /\ \/ ev'[1].op = "retry_ratelimit"
            \/ (ev'[1].op \in {"gave_up", "brand_failed"} /\ ev'[1].cause = "ratelimit")) =>
          proxy_failures' \in AfterFailure(proxy_failures, current_proxy) ]_vars

\* C28 (as claimed): crawl() gives a URL up after a transport exception only
\* when the failing attempt was the third, with or without a proxy pool.
C28_TransportRetriedThreeTimes ==
    (ev # << >> /\ ev[1].op = "gave_up" /\ ev[1].cause = "transport") =>
        ev[1].attempt = MAX_RETRIES

\* C29 (as claimed): no fetch loop drops a URL on a 5xx answer: crawl() gives
\* it up only after the last attempt and _scrape_brand_simple() retries it.
C29_ServerErrorRetried ==
    /\ (ev # << >> /\ ev[1].op = "gave_up" /\ ev[1].cause = "server") =>
          ev[1].attempt = MAX_RETRIES
    /\ ~(ev # << >> /\ ev[1].op = "brand_failed" /\ ev[1].cause = "server"
            /\ gets < MAX_RETRIES /\ watch = ev[1].url)

\* the events of the steps in which a request failed
FailureOps ==
    {"retry_transport", "retry_exception", "retry_ratelimit", "retry_server",
     "gave_up", "brand_failed"}

\* every configured proxy has reached the failure limit
Exhausted(fails) ==
    proxies # << >> /\ \A q \in Range(proxies) : fails[q] >= FAIL_LIMIT

\* the counts one step may leave: those after its own update, or none when
\* that update left every proxy exhausted and the step took the next proxy
CountsAfter(updated) ==
    {updated} \cup (IF Exhausted(updated) THEN {NoFailures} ELSE {})

C30_ResetWitness ==
    /\ ev # << >>
    /\ ev[1].op \in {"retry_transport", "retry_ratelimit", "pop", "brand_next"}
    /\ current_proxy # "None"
    /\ proxy_failures = NoFailures
    /\ gets >= 3

\* C21: every crawl of the brand loop receives a copy of the command-line
\* arguments in which only brand, start_url, out_csv and saved_since_break are
\* overwritten (start_url None, out_csv "perfumes.csv", max_pages and
\* session_size as given, no saved_since_break_end left by an earlier brand),
\* and no step of main changes the arguments it parsed
C21_PerBrandCopy ==
    /\ [](main_pc \in {"loop", "done"} /\ brands # << >> =>
            \A i \in 1 .. Len(calls) :
                calls[i].received =
                    [brand |-> brands[i], start_url |-> "None",
                     out_csv |-> "perfumes.csv",
                     max_pages |-> main_args.max_pages,
                     session_size |-> main_args.session_size,
                     saved_since_break |-> calls[i].saved_since_break,
                     saved_since_break_end |-> Unset])
    /\ [][main_args' = main_args]_vars

\* a second brand is crawled with an --out-csv other than the default, after
\* the first brand's crawl left its counter in its own namespace
C21_Witness ==
    /\ Len(calls) = 2
    /\ brands # << >>
    /\ main_args.out_csv = "mine.csv"
    /\ calls[1].saved_since_break_end # Unset
    /\ calls[2].received.brand = brands[2]
    /\ calls[2].received.max_pages = 0

\* C23: a bulk rewrite is all-or-nothing: when it fails the file holds what it
\* held before and no temp file is left, and when it succeeds the file holds
\* exactly the new rows
C23_AllOrNothing ==
    Len(rw) > 0 =>
        /\ rw[1].pc = "failed" => rw[1].file = rw[1].orig /\ ~rw[1].tmp_exists
        /\ rw[1].pc = "done" => rw[1].file = rw[1].rows /\ ~rw[1].tmp_exists

\* a text holds a full match whose category is at most 80 characters
HasShortFullMatch(text) ==
    \E i \in 1 .. Len(text) : text[i].kind = "full" /\ text[i].len <= MaxCategoryLen

\* the texts of the three tiers of a document
TierTexts(doc) ==
    {doc.meta, doc.og, PageText(doc.elements)} \cup Range(doc.elements)

\* C24: parse_category_and_sex returns an audience without a category only
\* when no tier holds a full match with a category of at most 80 characters;
\* a full sentence in the meta description with only an audience-only sentence
\* in the body gives the meta description's category and audience; and a
\* document no pattern matches gives two empty fields
C24_AudienceOnlyLastResort ==
    Len(cs_call) > 0 /\ cs_call[1].returned # << >> =>
        LET doc == cs_call[1].doc
            res == cs_call[1].returned[1]
        IN  /\ res.category = "" /\ res.sex # "" =>
                   \A text \in TierTexts(doc) : ~HasShortFullMatch(text)
            /\ doc.meta = << FullSentence >> /\ doc.elements = << << SexSentence >> >> =>
                   res = [category |-> FullSentence.category, sex |-> FullSentence.sex]
            /\ (\A text \in TierTexts(doc) : text = << >>) => res = NoneNone

\* C31: when the caller pinned a user-agent every identity of the run carries
\* exactly it, and a session has a user-agent of the pool only when none was
\* pinned
C31_PinnedUserAgentKept ==
    Len(idn) > 0 /\ idn[1].made # "none" /\ idn[1].mode \in {"crawl", "brand"} =>
        /\ idn[1].user_agent # Placeholder => idn[1].session_ua = idn[1].user_agent
        /\ idn[1].session_ua \in DEFAULT_UAS => idn[1].user_agent = Placeholder

\* C32: a URL that passes the host test of extract_links and of the seed loop
\* (its normalized host is the primary domain) had the primary domain or the
\* bare domain fragrantica.com as its host, in any letter case; no other host
\* is rewritten to the primary domain
C32_OnlyOwnHostsAccepted ==
    nu_out # << >> =>
        \A i \in {1, 2} :
            nu_out[i].host = Domain =>
                LowerHost(nu_in[i].host) \in {Domain, << "fragrantica", "com" >>}

\* C33: every row the run appends carries a URL of the detail-page shape; a
\* page of another shape, reached through a redirect included, is never
\* persisted
C33_OnlyDetailUrlsPersisted ==
    args.brand = "" =>
        \A j \in (csv_start + 1) .. Len(csv_rows) : PERFUME_URL_RE(csv_rows[j].url)

\* C34: a persisted record has a rating between 0 and 5 and a vote count that
\* is a non-negative integer, and a page without a rating sentence yields an
\* empty rating and an empty vote count
C34_RatingWithinScale ==
    Len(rv_call) > 0 /\ rv_call[1].returned # << >> =>
        LET text == rv_call[1].text
            data == rv_call[1].returned[1]
        IN  /\ Persisted(data) =>
                   /\ data.rating[1] \in 0 .. 50
                   /\ data.votes[1] \in Nat
            /\ ~text.sentence =>
                   ~data.raised /\ data.rating = << >> /\ data.votes = << >>

\* C35: when robots.txt could not be fetched, crawl() pops every URL of the
\* frontier as disallowed: no page is requested, nothing is enqueued or
\* saved, and once the frontier is drained the run can finish
C35_NoFetchWithoutPolicy ==
    (args.brand = "" /\ pc \in {"loop", "fetch", "done"} /\ ~rp_parsed) =>
        /\ pc # "fetch"
        /\ gets = 0
        /\ ev[1].op \in {"setup", "robots_skip", "finish"}
        /\ Len(csv_rows) = csv_start
        /\ seen = Range(SelectSeq([i \in 1 .. Len(args.start_url) |->
                                      normalize_url(args.start_url[i])],
                                  LAMBDA su : su # NoneUrl /\ su.host = Domain))
        /\ (pc = "loop" /\ queue = << >>) => ENABLED CrawlFinish

\* the only seed was popped as disallowed and the run is over
C35_Witness ==
    /\ args.brand = ""
    /\ ~rp_parsed
    /\ pc = "done"
    /\ seen # {}
    /\ queue = << >>
    /\ site_disallow = {}

\* the in-domain links of a page, as extract_links resolves them
OwnLinks(base, anchors) ==
    {u \in {normalize_url(urljoin(base, anchors[i])) : i \in DOMAIN anchors} :
        u # NoneUrl /\ u.host = Domain}

\* the page is served under /designers/ of the primary domain
UnderDesigners(u) == u.host = Domain /\ Len(u.path) >= 2 /\ u.path[1] = "designers"

\* C36: extract_links with a limit L > 0 returns at most L detail links, each
\* one of the page's own in-domain detail links; the designer links are all
\* returned whatever the limit; with L = 0 every detail link is returned; and
\* crawl() gives the limit 20 exactly to the pages under /designers/
C36_DetailLinksCapped ==
    Len(el_call) > 0 /\ el_call[1].returned # << >> =>
        LET c       == el_call[1]
            own     == OwnLinks(c.url, c.anchors)
            details == {u \in own : PERFUME_PATH_RE(u.path)}
            hubs    == {u \in own : ~PERFUME_PATH_RE(u.path) /\ UnderDesigners(u)}
            links   == c.returned[1]
        IN  /\ links \subseteq details \cup hubs
            /\ hubs \subseteq links
            /\ c.limit > 0 => Cardinality(links \cap details) <= c.limit
            /\ c.limit = 0 => details \subseteq links
            /\ c.link_limit = LinkLimit <=> UnderDesigners(c.url)
            /\ c.link_limit \in {0, LinkLimit}

\* C37: saved_since_break counts the records persisted since the last
\* cooldown: every step that appends a record either adds one to the counter
\* or takes the cooldown and resets it, in crawl(), in the brand-mode loop and
\* in the brand-mode retry pass
C37_EverySaveCounted ==
    [][Len(csv_rows') > Len(csv_rows) =>
          \/ saved_since_break' = saved_since_break + 1
          \/ saved_since_break' = 0]_vars

\* C38: no GET goes through a proxy with three or more failures while another
\* proxy of the pool has fewer than three
C38_NoGetThroughFailedProxy ==
    Len(pu) > 0 =>
        (proxy_failures[pu[1].current_proxy] >= FAIL_LIMIT =>
            \A p \in Range(proxies) : proxy_failures[p] >= FAIL_LIMIT)

\* C39: crawl() pops every URL at most once: a URL that enters its retry loop
\* has not been requested before in the run
C39_PoppedAtMostOnce ==
    (args.brand = "" /\ pc = "fetch" /\ attempt = 1 /\ url = watch
        /\ ev[1].op = "pop") => gets = 0

\* the run is one sequential loop: a step that can be taken is taken
SpecFair == Spec /\ WF_vars(Next)

\* every run of crawl() ends: it returns or exits
CrawlTerminates == <>(pc \in {"done", "exit"})

\* ------------------------------------------------------------------------
\* enrich(): fills the empty category and audience cells of the store file
\* ------------------------------------------------------------------------

MaxCsvRows == 2

\* flush CSV every N successful enrichments
save_every == 10

\* a cell holding nothing but white space
Blank == " "

UrlCells      == {"", "u"}
SexCells      == {"", "for men"}
CategoryCells == {"", Blank, "Woody"}
SkipRowsArgs  == {0, 1}
MaxPagesArgs  == {0, 1}

\* _read_csv: the row read from line i of the file; the cells enrich() never
\* reads carry the line's number
CsvRow(i, cells) ==
    [brand |-> i, name |-> i, rating |-> i, votes |-> i, url |-> cells.url,
     last_crawled |-> i, sex |-> cells.sex,
     fragrance_category |-> cells.fragrance_category]

CsvFiles ==
    UNION { { [i \in 1 .. n |-> CsvRow(i, f[i])] :
                f \in [1 .. n -> [url : UrlCells, sex : SexCells,
                                  fragrance_category : CategoryCells]] } :
            n \in 0 .. MaxCsvRows }

\* str.strip() of a cell
StripCell(s) == IF s = Blank THEN "" ELSE s

\* needs_category or needs_sex
NeedsEnrichment(row) ==
    StripCell(row.fragrance_category) = "" \/ StripCell(row.sex) = ""

min(a, b) == IF a < b THEN a ELSE b

\* to_enrich: the pending row indices, after --skip-rows and --max-pages
ToEnrich(rows, skip_rows, max_pages) ==
    LET all     == SelectSeq([i \in 1 .. Len(rows) |-> i],
                             LAMBDA i : NeedsEnrichment(rows[i]))
        skipped == IF skip_rows > 0
                   THEN SubSeq(all, min(skip_rows, Len(all)) + 1, Len(all))
                   ELSE all
    IN  IF max_pages > 0
        THEN SubSeq(skipped, 1, min(max_pages, Len(skipped)))
        ELSE skipped

\* what parse_category_and_sex returns: nothing, a category with its
\* audience, or the audience alone
EnrichParseResults ==
    { NoneNone,
      [category |-> "Woody Chypre", sex |-> "men"],
      [category |-> "", sex |-> "women and men"] }

\* the row update that always takes the parsed category
UpdateRow_overwrite(row, parsed) ==
    [row EXCEPT !.fragrance_category =
                    IF parsed.category # "" THEN parsed.category ELSE @,
                !.sex =
                    IF parsed.sex # "" /\ StripCell(row.sex) = ""
                    THEN parsed.sex ELSE @]

\* "Update row": a parsed value goes into a cell that is empty once stripped
UpdateRow(row, parsed) ==
    [row EXCEPT !.fragrance_category =
                    IF parsed.category # "" /\ StripCell(row.fragrance_category) = ""
                    THEN parsed.category ELSE @,
                !.sex =
                    IF parsed.sex # "" /\ StripCell(row.sex) = ""
                    THEN parsed.sex ELSE @]

\* _write_csv: nothing is written for an empty row list
write_csv(file, rows) == IF rows = << >> THEN file ELSE rows

\* enrich() after the file is read and the work list is made; with nothing
\* pending it returns at once
EnrichStart(file, skip_rows, max_pages) ==
    LET pending == SelectSeq([i \in 1 .. Len(file) |-> i],
                             LAMBDA i : NeedsEnrichment(file[i]))
    IN  [pc |-> IF pending = << >> THEN "done" ELSE "loop",
         read |-> file, file |-> file, rows |-> file,
         to_enrich |-> ToEnrich(file, skip_rows, max_pages),
         progress |-> 0, enriched_count |-> 0, writes |-> 0,
         outcome |-> [i \in 1 .. Len(file) |-> "none"]]

InitEnrich ==
    /\ nu_in = << >>
    /\ nu_out = << >>
    /\ MainIdle
    /\ BackoffIdle
    /\ CrawlIdle
    /\ rw = << >>
    /\ cs_call = << >>
    /\ idn = << >>
    /\ rv_call = << >>
    /\ el_call = << >>
    /\ pu = << >>
    /\ gnp_call = << >>
    /\ proxies = << >>
    /\ proxy_index = -1
    /\ proxy_failures = NoFailures
    /\ \E file \in CsvFiles, skip_rows \in SkipRowsArgs, max_pages \in MaxPagesArgs :
           en = << EnrichStart(file, skip_rows, max_pages) >>

EnrichFrame ==
    UNCHANGED << nu_in, nu_out, crawlVars, mainVars, backoffVars, proxyVars, rw,
                 cs_call, idn, rv_call, el_call, pu >>

\* the row the loop is at
EnrichAt(e) == e.to_enrich[e.progress + 1]

EnrichLooping ==
    /\ Len(en) > 0
    /\ en[1].pc = "loop"
    /\ en[1].progress < Len(en[1].to_enrich)

\* a row without a URL is skipped
EnrichNoUrl ==
    /\ EnrichLooping
    /\ LET e == en[1]
           i == EnrichAt(e)
       IN  /\ e.rows[i].url = ""
           /\ en' = << [e EXCEPT !.progress = @ + 1, !.outcome[i] = "nourl"] >>
    /\ EnrichFrame

\* every attempt failed: the loop goes to the next row
EnrichFetchFailed ==
    /\ EnrichLooping
    /\ LET e == en[1]
           i == EnrichAt(e)
       IN  /\ e.rows[i].url # ""
           /\ en' = << [e EXCEPT !.progress = @ + 1, !.outcome[i] = "failed"] >>
    /\ EnrichFrame

\* the page is fetched and parsed, the row updated, and the file flushed
\* every save_every enrichments
EnrichPage ==
    /\ EnrichLooping
    /\ LET e == en[1]
           i == EnrichAt(e)
       IN  /\ e.rows[i].url # ""
           /\ \E parsed \in EnrichParseResults :
                  LET row     == UpdateRow(e.rows[i], parsed)
                      updated == row # e.rows[i]
                      rows    == [e.rows EXCEPT ![i] = row]
                      count   == IF updated THEN e.enriched_count + 1
                                 ELSE e.enriched_count
                      save    == count > 0 /\ count % save_every = 0
                  IN  en' = << [e EXCEPT
                                  !.progress = @ + 1,
                                  !.rows = rows,
                                  !.enriched_count = count,
                                  !.file = IF save THEN write_csv(@, rows) ELSE @,
                                  !.writes = IF save THEN @ + 1 ELSE @,
                                  !.outcome[i] = IF parsed = NoneNone THEN "nothing"
                                                 ELSE "parsed"] >>
    /\ EnrichFrame

\* "Final save"
EnrichFinish ==
    /\ Len(en) > 0
    /\ en[1].pc = "loop"
    /\ en[1].progress = Len(en[1].to_enrich)
    /\ LET e    == en[1]
           save == e.enriched_count > 0
       IN  en' = << [e EXCEPT !.pc = "done",
                              !.file = IF save THEN write_csv(@, e.rows) ELSE @,
                              !.writes = IF save THEN @ + 1 ELSE @] >>
    /\ EnrichFrame

NextEnrich ==
    \/ EnrichNoUrl
    \/ EnrichFetchFailed
    \/ EnrichPage
    \/ EnrichFinish

SpecEnrich == InitEnrich /\ [][NextEnrich]_vars

\* the cells of row i that enrich() never writes are the ones it read
FixedCellsKept(rows, read, i) ==
    /\ rows[i].brand = read[i].brand
    /\ rows[i].name = read[i].name
    /\ rows[i].rating = read[i].rating
    /\ rows[i].votes = read[i].votes
    /\ rows[i].url = read[i].url
    /\ rows[i].last_crawled = read[i].last_crawled

\* the rows in memory or on disk against the rows read: same rows in the
\* same order, fixed cells kept, untouched rows kept whole
RowsKept(rows, e) ==
    /\ Len(rows) = Len(e.read)
    /\ \A i \in 1 .. Len(rows) :
           /\ FixedCellsKept(rows, e.read, i)
           /\ e.outcome[i] \in {"none", "nourl", "failed", "nothing"}
                  => rows[i] = e.read[i]

\* C40 as stated: enrich() never overwrites a non-empty fragrance_category
\* or sex, never changes the other cells, never adds, drops or reorders
\* rows, leaves rows whose fetch failed or whose page yielded nothing
\* unchanged, and does not rewrite the file when no row was enriched.
C40_OnlyEmptyCellsFilled_asStated ==
    Len(en) > 0 =>
        LET e == en[1]
        IN  /\ RowsKept(e.rows, e)
            /\ RowsKept(e.file, e)
            /\ \A i \in 1 .. Len(e.read) :
                   /\ e.read[i].fragrance_category # ""
                          => /\ e.rows[i].fragrance_category = e.read[i].fragrance_category
                             /\ e.file[i].fragrance_category = e.read[i].fragrance_category
                   /\ e.read[i].sex # ""
                          => /\ e.rows[i].sex = e.read[i].sex
                             /\ e.file[i].sex = e.read[i].sex
            /\ e.enriched_count = 0 => (e.writes = 0 /\ e.file = e.read)

\* C40: enrich() never overwrites a fragrance_category or sex that holds
\* more than white space, never changes brand, name, rating, votes, url or
\* last_crawled, never adds, drops or reorders rows, leaves rows whose
\* fetch failed or whose page yielded nothing unchanged, and does not
\* rewrite the file when no row was enriched.
C40_OnlyEmptyCellsFilled ==
    Len(en) > 0 =>
        LET e == en[1]
        IN  /\ RowsKept(e.rows, e)
            /\ RowsKept(e.file, e)
            /\ \A i \in 1 .. Len(e.read) :
                   /\ StripCell(e.read[i].fragrance_category) # ""
                          => /\ e.rows[i].fragrance_category = e.read[i].fragrance_category
                             /\ e.file[i].fragrance_category = e.read[i].fragrance_category
                   /\ StripCell(e.read[i].sex) # ""
                          => /\ e.rows[i].sex = e.read[i].sex
                             /\ e.file[i].sex = e.read[i].sex
            /\ e.enriched_count = 0 => (e.writes = 0 /\ e.file = e.read)

\* a finished run over two rows: the first kept its category and had its
\* audience filled, the second's fetch failed, and the file was rewritten
C40_Witness ==
    /\ Len(en) > 0
    /\ en[1].pc = "done"
    /\ Len(en[1].read) = 2
    /\ en[1].read[1].fragrance_category = "Woody"
    /\ en[1].read[1].sex = ""
    /\ en[1].outcome = << "parsed", "failed" >>
    /\ en[1].file[1].fragrance_category = "Woody"
    /\ en[1].file[1].sex # ""
    /\ en[1].file[2] = en[1].read[2]
    /\ en[1].writes = 1

====
